---- MODULE Spec2Model ----
(***************************************************************************)
(* A model of the node of the SAFE network routing layer:                  *)
(*   - the ApprovedPeer state machine (src/states/approved_peer/mod.rs):   *)
(*     stages Bootstrapping, Joining, Approved, Terminated, the inputs     *)
(*     (network events and actions) and the message pipeline               *)
(*     try_handle_message -> msg_queue -> dispatch_message;                *)
(*   - the duty classifier InboundMsgAnalysis::evaluate                    *)
(*     (src/node/msg_analysis.rs).                                         *)
(* The stage objects (Bootstrapping, Joining, Approved), the Core and the  *)
(* transport are not part of the sources at hand: their results are inputs *)
(* of the handlers (the "outcome" o of an input) or are modelled after the *)
(* specification, as the comments say.                                     *)
(***************************************************************************)
EXTENDS Integers, Sequences, FiniteSets, TLC

VARIABLES
    stage,       \* ApprovedPeer.stage: [tag, relocate, elders_info, connect_type]
    full_id,     \* core.full_id: the identity, numbered by generation
    msg_queue,   \* core.msg_queue: Seq of [message, sender]
    msg_filter,  \* core.msg_filter: the incoming messages already handled
    outbox,      \* the events sent to the outbox while handling the last input
    sent,        \* what was asked of the transport/timer while handling the last input
    result,      \* what handle_send_message returned for the last input
    panic,       \* "none", or the assertion / unreachable!() arm that aborted the process
    last,        \* the last input handled
    pre,         \* stage, identity and queue as they were before the last input
    env,         \* the envelope given to the duty classifier
    duties,      \* NodeDuties of the classifying node
    action,      \* InboundMsg returned by evaluate
    client_msg,  \* the ClientMsg of the last RoutingEvent::ClientMsgReceived
    user,        \* the EndUser it came from
    mapping,     \* the Mapping { op, ctx } map_client_msg returned for it
    net_chunks,  \* the chunks the network holds
    in_flight,   \* the blob commands sent and not yet applied, oldest first
    payload,     \* the bytes the client stores as a blob
    calls,       \* the store and delete calls the client has made, oldest first
    blob_last,   \* the last call of the blob API, with what it returned
    now,         \* the time, in ticks
    timer,       \* core.timer: the resends scheduled and not yet due, [to, msg, since, due]
    resent,      \* what was sent since the last tick, [to, msg, since, at]
    elders_event, \* the RoutingEvent::EldersChanged being mapped, and how far the mapping is
    sanity_counter, \* the sanity_counter of its polling loop
    polls        \* the calls of our_public_key_set the loop has made

nodeVars == <<stage, full_id, msg_queue, msg_filter, outbox, sent, result, panic, last, pre>>
evalVars == <<env, duties, action>>
mapVars == <<client_msg, user, mapping, elders_event, sanity_counter, polls>>
blobVars == <<net_chunks, in_flight, payload, calls, blob_last>>
timerVars == <<now, timer, resent>>
vars == <<stage, full_id, msg_queue, msg_filter, outbox, sent, result, panic, last, pre,
          env, duties, action, client_msg, user, mapping,
          net_chunks, in_flight, payload, calls, blob_last, now, timer, resent,
          elders_event, sanity_counter, polls>>

----------------------------------------------------------------------------
(* Bounds of the model *)

\* identities a node generates (rebootstrap draws a fresh one each time)
MaxIdentity == 2
\* messages the incoming filter records
MaxFilter == 2
\* message ids of the client messages
MaxMsgId == 3
\* bytes of a payload given to the blob store
MaxLen == 9
\* store and delete calls of the client
MaxCalls == 3

----------------------------------------------------------------------------
(* Values *)

Peers == {"p1", "p2"}

\* Option::None of the integer-valued options (relocate details, elders info)
None == 0
\* elders_version: None of a Bounce
NoVersion == 0 - 1

\* DstLocation: Node(name), Section(name), Direct. A node name is an identity
\* number; a section name is inside or outside the prefix of our section.
Dsts == {"Node0", "Node1", "SectionIn", "SectionOut", "Direct"}

DstKind(dst) ==
    CASE dst \in {"Node0", "Node1"} -> "Node"
      [] dst \in {"SectionIn", "SectionOut"} -> "Section"
      [] OTHER -> "Direct"

DstName(dst) == IF dst = "Node0" THEN 0 ELSE 1

\* DstLocation::is_multiple: Section and Prefix are multi-target locations
is_multiple(dst) == DstKind(dst) = "Section"

\* The variants of a routing message, with the argument that matters here:
\*   BootstrapResponseJoin(elders_info), Relocate(details), Bounce{elders_version},
\*   JoinResponseRejected (the join rejection: no stage has an arm for it);
\*   UserMessage stands for the messages only an Approved node handles.
VariantArgs ==
    [BootstrapResponseJoin |-> {1, 2},
     BootstrapResponseRebootstrap |-> {None},
     NodeApproval |-> {None},
     Bounce |-> {NoVersion, 1, 2, 3},
     Relocate |-> {1},
     UserMessage |-> {None},
     JoinResponseRejected |-> {None}]

Variants == DOMAIN VariantArgs

\* The bytes a Bounce hands back: a message this node sent before
BouncedBytes ==
    {[variant |-> "UserMessage", dst |-> d, arg |-> None, message |-> <<>>] :
        d \in {"Node1", "SectionOut"}}

\* Variant::Bounce { elders_version, message }: the bounced bytes, as a sequence
\* of one; every other variant has none
VariantMessage(v) == IF v = "Bounce" THEN {<<b>> : b \in BouncedBytes} ELSE {<<>>}

AllMessages ==
    UNION {[variant : {v}, dst : Dsts, arg : VariantArgs[v], message : VariantMessage(v)] :
              v \in Variants}

\* The messages the network delivers in the model: every variant sent directly,
\* and for every other destination a variant each stage handles.
Messages ==
    {m \in AllMessages :
        m.dst = "Direct" \/ m.variant \in {"UserMessage", "BootstrapResponseJoin"}}

NoMsg == [variant |-> "None", dst |-> "Direct", arg |-> None, message |-> <<>>]

\* What the code that is not at hand answers while an input is handled. One
\* outcome fails at most one call; every other call succeeds.
\*   bad_bytes    MessageWithBytes::partial_from_bytes fails
\*   relay_err    Approved::send_signed_message returns Err
\*   bad_body     take_or_deserialize_message fails
\*   verify_err   verify_message returns Err
\*   verify_false verify_message returns Ok(false)
\*   ok           the stage's handler takes its main branch
\*   ok_alt       the stage's handler takes its other branch (Ongoing, None)
\*   ok_err       to_sender_node / as_section or the stage's handler returns Err
Outcomes == {"bad_bytes", "relay_err", "bad_body", "verify_err", "verify_false",
             "ok", "ok_alt", "ok_err"}

\* BOUNCE_RESEND_DELAY, in seconds
BOUNCE_RESEND_DELAY == 1

\* Timer tokens: the transport's own, the Joining stage's join timer, any other
Tokens == {"Transport", "Join", "Other"}

----------------------------------------------------------------------------
(* The node: ApprovedPeer { core, stage }, as the record the handlers map *)

\* Stage::Bootstrapping(Bootstrapping::new(network_cfg, relocate_details))
BootstrappingNew(relocate_details) ==
    [tag |-> "Bootstrapping", relocate |-> relocate_details,
     elders_info |-> None, connect_type |-> "None"]

\* Stage::Joining(Joining::new(core, network_cfg, elders_info, relocate_payload));
\* the stage records the connect type it reports once approved
JoiningNew(elders_info, relocate_payload) ==
    [tag |-> "Joining", relocate |-> relocate_payload, elders_info |-> elders_info,
     connect_type |-> IF relocate_payload = None THEN "First" ELSE "Relocate"]

\* Stage::Approved(Approved::new(core, network_cfg, gen_pfx_info, None))
ApprovedNew ==
    [tag |-> "Approved", relocate |-> None, elders_info |-> None, connect_type |-> "None"]

StageTerminated ==
    [tag |-> "Terminated", relocate |-> None, elders_info |-> None, connect_type |-> "None"]

Self ==
    [stage |-> stage, full_id |-> full_id, msg_queue |-> msg_queue,
     msg_filter |-> msg_filter, outbox |-> <<>>, sent |-> <<>>,
     result |-> "none", panic |-> "none", dispatched |-> <<>>]

Panic(n, what) == IF n.panic = "none" THEN [n EXCEPT !.panic = what] ELSE n

Transport(n, op, to, msg, version) ==
    [n EXCEPT !.sent = Append(@, [op |-> op, to |-> to, msg |-> msg, version |-> version,
                                  delay |-> 0])]

\* A variant of send_message_to_target_later that sends the bytes at once
send_message_to_target_at_once(n, dst, message, delay) ==
    Transport(n, "resend", dst, message, NoVersion)

\* core.send_message_to_target_later(dst, message, delay): the bytes are put on
\* a timer of the given delay and nothing is sent by the call
send_message_to_target_later(n, dst, message, delay) ==
    [n EXCEPT !.sent = Append(@, [op |-> "later", to |-> dst, msg |-> message,
                                  version |-> NoVersion, delay |-> delay])]

send_event(n, event, arg) ==
    [n EXCEPT !.outbox = Append(@, [event |-> event, arg |-> arg])]

is_running(n) == n.stage.tag # "Terminated"

\* Chain::in_dst_location of an Approved node: our own name, an address of our
\* section, or Direct
ChainInDstLocation(n, dst) ==
    CASE DstKind(dst) = "Node" -> DstName(dst) = n.full_id
      [] DstKind(dst) = "Section" -> dst = "SectionIn"
      [] OTHER -> TRUE

in_dst_location(n, dst) ==
    CASE n.stage.tag \in {"Bootstrapping", "Joining"} ->
            (CASE DstKind(dst) = "Node" -> DstName(dst) = n.full_id
               [] DstKind(dst) = "Section" -> FALSE
               [] OTHER -> TRUE)
      [] n.stage.tag = "Approved" -> ChainInDstLocation(n, dst)
      [] OTHER -> FALSE

\* Chain::find_section_by_member: the version known for the section of a peer;
\* p1 is a member of a section known at version 2, p2 of none
find_section_by_member(peer) == IF peer = "p1" THEN 2 ELSE NoVersion

----------------------------------------------------------------------------
(* Transitions *)

\* A variant of join that loses the relocate payload
join_without_payload(n, elders_info, relocate_payload) ==
    [n EXCEPT !.stage = JoiningNew(elders_info, None)]

\* Transition from Bootstrapping to Joining
join(n, elders_info, relocate_payload) ==
    [n EXCEPT !.stage = JoiningNew(elders_info, relocate_payload)]

\* A variant of approve that emits no event
approve_silent(n, connect_type) == [n EXCEPT !.stage = ApprovedNew]

\* Transition from Joining to Approved
approve(n, connect_type) ==
    send_event([n EXCEPT !.stage = ApprovedNew], "Connected", connect_type)

\* A variant of relocate that starts the bootstrap without the relocate details
relocate_without_details(n, details) ==
    Transport([n EXCEPT !.stage = BootstrappingNew(None)],
              "bootstrap_request", "conn_infos", NoMsg, NoVersion)

\* Transition from Approved to Bootstrapping on relocation; a bootstrap request
\* goes to each of the conn_infos
relocate(n, details) ==
    Transport([n EXCEPT !.stage = BootstrappingNew(details)],
              "bootstrap_request", "conn_infos", NoMsg, NoVersion)

\* A variant of rebootstrap that keeps the identity
rebootstrap_same_identity(n) ==
    Transport([n EXCEPT !.stage = BootstrappingNew(None)],
              "bootstrap", "none", NoMsg, NoVersion)

\* Transition from Joining to Bootstrapping on join failure
rebootstrap(n) ==
    Transport([n EXCEPT !.stage = BootstrappingNew(None), !.full_id = @ + 1],
              "bootstrap", "none", NoMsg, NoVersion)

----------------------------------------------------------------------------
(* Message handling *)

\* Bootstrapping / Joining / Approved ::should_handle_message: the variants
\* dispatch_message has an arm for in that stage
should_handle_message(n, msg) ==
    CASE n.stage.tag = "Bootstrapping" ->
            msg.variant \in {"BootstrapResponseJoin", "BootstrapResponseRebootstrap", "Bounce"}
      [] n.stage.tag = "Joining" ->
            msg.variant \in {"BootstrapResponseJoin", "NodeApproval", "Bounce"}
      [] n.stage.tag = "Approved" ->
            msg.variant \in {"Relocate", "UserMessage", "Bounce"}
      [] OTHER -> FALSE

\* verify_message: Ok(true), Ok(false) or Err, as the stage answers
verify_message(n, msg, o) ==
    CASE n.stage.tag = "Terminated" -> "unreachable"
      [] o = "verify_err" -> "err"
      [] o = "verify_false" -> "false"
      [] OTHER -> "true"

\* The stage's unhandled_message: a Bounce { our version, the bytes } goes back
\* to the immediate sender. A node that has no section yet has no version.
StageUnhandledMessage(n, sender, msg) ==
    Transport(n, "bounce", sender, msg,
              IF n.stage.tag = "Approved" THEN 2 ELSE NoVersion)

unhandled_message(n, sender, msg) ==
    IF n.stage.tag = "Terminated" THEN n ELSE StageUnhandledMessage(n, sender, msg)

relay_message(n, sender, msg, o) ==
    CASE n.stage.tag \in {"Bootstrapping", "Joining"} ->
            \* Message not for us, bouncing
            Transport(n, "bounce", sender, msg, NoVersion)
      [] n.stage.tag = "Approved" ->
            \* Approved::send_signed_message
            IF o = "relay_err" THEN n ELSE Transport(n, "relay", "closer", msg, NoVersion)
      [] OTHER -> Panic(n, "unreachable: relay_message")

\* TRUE when relay_message is called
Relays(n, msg) == ~in_dst_location(n, msg.dst) \/ is_multiple(msg.dst)

\* A variant of try_relay_message that relays only what is out of our location
try_relay_message_out_of_location(n, sender, msg, o) ==
    IF ~in_dst_location(n, msg.dst) THEN relay_message(n, sender, msg, o) ELSE n

try_relay_message(n, sender, msg, o) ==
    IF Relays(n, msg) THEN relay_message(n, sender, msg, o) ELSE n

handle_message(n, sender, msg) ==
    [n EXCEPT !.msg_queue = Append(@, [message |-> msg, sender |-> sender])]

\* A variant of try_handle_message that handles whatever the stage should
\* handle, verified or not
try_handle_message_unverified(n, sender, msg, o) ==
    LET r == try_relay_message(n, sender, msg, o) IN
    CASE r.panic # "none" -> r
      [] Relays(n, msg) /\ n.stage.tag = "Approved" /\ o = "relay_err" -> r
      [] ~in_dst_location(r, msg.dst) -> r
      [] msg \in r.msg_filter -> r
      [] o = "bad_body" -> r
      [] should_handle_message(r, msg) ->
            handle_message([r EXCEPT !.msg_filter = @ \cup {msg}], sender, msg)
      [] OTHER -> unhandled_message(r, sender, msg)

\* A variant of try_handle_message that does not ask the incoming filter
try_handle_message_again(n, sender, msg, o) ==
    LET r == try_relay_message(n, sender, msg, o) IN
    CASE r.panic # "none" -> r
      [] Relays(n, msg) /\ n.stage.tag = "Approved" /\ o = "relay_err" -> r
      [] ~in_dst_location(r, msg.dst) -> r
      [] o = "bad_body" -> r
      [] should_handle_message(r, msg) /\ verify_message(r, msg, o) = "err" -> r
      [] should_handle_message(r, msg) /\ verify_message(r, msg, o) = "true" ->
            handle_message([r EXCEPT !.msg_filter = @ \cup {msg}], sender, msg)
      [] OTHER -> unhandled_message(r, sender, msg)

try_handle_message(n, sender, msg, o) ==
    LET r == try_relay_message(n, sender, msg, o) IN
    CASE r.panic # "none" -> r
      [] Relays(n, msg) /\ n.stage.tag = "Approved" /\ o = "relay_err" -> r
      [] ~in_dst_location(r, msg.dst) -> r
      [] msg \in r.msg_filter -> r
      [] o = "bad_body" -> r
      [] should_handle_message(r, msg) /\ verify_message(r, msg, o) = "err" -> r
      [] should_handle_message(r, msg) /\ verify_message(r, msg, o) = "true" ->
            handle_message([r EXCEPT !.msg_filter = @ \cup {msg}], sender, msg)
      [] OTHER -> unhandled_message(r, sender, msg)

handle_new_message(n, sender, msg, o) ==
    IF o = "bad_bytes" THEN n ELSE try_handle_message(n, sender, msg, o)

\* A variant of handle_bounce that resends whatever the versions are
handle_bounce_always_resending(n, sender, sender_version, msg_bytes) ==
    IF n.stage.tag = "Terminated" THEN Panic(n, "unreachable: handle_bounce")
    ELSE send_message_to_target_later(n, sender, msg_bytes, BOUNCE_RESEND_DELAY)

\* A variant of handle_bounce that compares the versions in every stage: a node
\* that has no section yet knows no version for the sender
handle_bounce_by_version(n, sender, sender_version, msg_bytes) ==
    CASE n.stage.tag \in {"Bootstrapping", "Joining"} -> n
      [] n.stage.tag = "Approved" ->
            (LET known_version == find_section_by_member(sender) IN
             IF known_version # NoVersion
                /\ (sender_version = NoVersion \/ sender_version < known_version)
             THEN send_message_to_target_later(n, sender, msg_bytes, BOUNCE_RESEND_DELAY)
             ELSE n)
      [] OTHER -> Panic(n, "unreachable: handle_bounce")

handle_bounce(n, sender, sender_version, msg_bytes) ==
    CASE n.stage.tag \in {"Bootstrapping", "Joining"} ->
            \* Got message while bootstrapping/joining: resend after the delay
            send_message_to_target_later(n, sender, msg_bytes, BOUNCE_RESEND_DELAY)
      [] n.stage.tag = "Approved" ->
            (LET known_version == find_section_by_member(sender) IN
             IF known_version # NoVersion
             THEN \* sender_version.map(|v| v < known_version).unwrap_or(true)
                  IF sender_version = NoVersion \/ sender_version < known_version
                  THEN \* Peer is lagging behind, resending
                       send_message_to_target_later(n, sender, msg_bytes,
                                                    BOUNCE_RESEND_DELAY)
                  ELSE \* Peer has moved on, not resending
                       n
             ELSE \* Peer not known, not resending
                  n)
      [] OTHER -> Panic(n, "unreachable: handle_bounce")

\* Bootstrapping::handle_bootstrap_response: Join(elders_info) finishes the
\* bootstrap with the relocate payload made of the details the stage holds;
\* Rebootstrap restarts against the new peers and the bootstrap goes on. A
\* response from a peer that was not asked is ignored (outcome ok_alt).
BootstrappingHandleBootstrapResponse(n, msg, o) ==
    IF msg.variant = "BootstrapResponseJoin" /\ o # "ok_alt"
    THEN [status |-> "Finished", elders_info |-> msg.arg,
          relocate_payload |-> n.stage.relocate]
    ELSE [status |-> "Ongoing", elders_info |-> None, relocate_payload |-> None]

\* Joining::handle_bootstrap_response: retarget to the new elders, keeping the
\* rest of the stage
JoiningHandleBootstrapResponse(n, msg, o) ==
    IF o = "ok_alt" THEN n ELSE [n EXCEPT !.stage.elders_info = msg.arg]

dispatch_message(n, sender, msg, o) ==
    CASE n.stage.tag = "Bootstrapping" ->
            (CASE msg.variant \in {"BootstrapResponseJoin", "BootstrapResponseRebootstrap"} ->
                    (IF o = "ok_err" THEN n
                     ELSE LET st == BootstrappingHandleBootstrapResponse(n, msg, o) IN
                          IF st.status = "Finished"
                          THEN join(n, st.elders_info, st.relocate_payload)
                          ELSE n)
               [] msg.variant = "Bounce" ->
                    (IF o = "ok_err" THEN n
                     ELSE handle_bounce(n, sender, msg.arg, msg.message[1]))
               [] OTHER -> Panic(n, "unreachable: dispatch_message Bootstrapping"))
      [] n.stage.tag = "Joining" ->
            (CASE msg.variant = "BootstrapResponseJoin" ->
                    (IF o = "ok_err" THEN n ELSE JoiningHandleBootstrapResponse(n, msg, o))
               [] msg.variant = "NodeApproval" -> approve(n, n.stage.connect_type)
               [] msg.variant = "Bounce" ->
                    (IF o = "ok_err" THEN n
                     ELSE handle_bounce(n, sender, msg.arg, msg.message[1]))
               [] OTHER -> Panic(n, "unreachable: dispatch_message Joining"))
      [] n.stage.tag = "Approved" ->
            (CASE msg.variant = "Relocate" ->
                    \* Approved::handle_relocate answers Some(params) (ok) or None
                    (IF o \in {"ok_alt", "ok_err"} THEN n ELSE relocate(n, msg.arg))
               [] msg.variant = "UserMessage" -> send_event(n, "MessageReceived", "None")
               [] msg.variant = "Bounce" ->
                    (IF o = "ok_err" THEN n
                     ELSE handle_bounce(n, sender, msg.arg, msg.message[1]))
               [] OTHER -> Panic(n, "unreachable: dispatch_message Approved"))
      [] OTHER -> Panic(n, "unreachable: dispatch_message Terminated")

\* A variant of handle_messages that takes the newest message first
RECURSIVE handle_messages_newest_first(_, _)
handle_messages_newest_first(n, o) ==
    IF n.msg_queue = <<>> \/ n.panic # "none" THEN n
    ELSE LET q == n.msg_queue[Len(n.msg_queue)]
             m == [n EXCEPT !.msg_queue = SubSeq(@, 1, Len(@) - 1),
                            !.dispatched = Append(@, q)]
         IN  IF in_dst_location(m, q.message.dst)
             THEN handle_messages_newest_first(
                      dispatch_message(m, q.sender, q.message, o), o)
             ELSE handle_messages_newest_first([m EXCEPT !.dispatched = n.dispatched], o)

\* while let Some(..) = msg_queue.pop_front(): dispatched records what
\* dispatch_message was called with, in the order of the calls
RECURSIVE handle_messages(_, _)
handle_messages(n, o) ==
    IF n.msg_queue = <<>> \/ n.panic # "none" THEN n
    ELSE LET q == Head(n.msg_queue)
             m == [n EXCEPT !.msg_queue = Tail(@)]
         IN  IF in_dst_location(m, q.message.dst)
             THEN handle_messages(
                      dispatch_message([m EXCEPT !.dispatched = Append(@, q)],
                                       q.sender, q.message, o), o)
             ELSE handle_messages(m, o)

\* handle_messages, then the Approved stage's own finish_handle_input (which
\* touches nothing of what is modelled here)
finish_handle_input(n, o) == handle_messages(n, o)

----------------------------------------------------------------------------
(* Input handling *)

handle_bootstrapped_to(n, addr) ==
    CASE n.stage.tag = "Bootstrapping" ->
            \* Bootstrapping::send_bootstrap_request
            Transport(n, "bootstrap_request", addr, NoMsg, NoVersion)
      [] n.stage.tag \in {"Joining", "Approved"} ->
            \* A bootstrapped node doesn't need another bootstrap connection
            Transport(n, "disconnect", addr, NoMsg, NoVersion)
      [] OTHER -> n

\* A variant of handle_bootstrap_failure that emits no event
handle_bootstrap_failure_silent(n) ==
    IF n.stage.tag # "Bootstrapping"
    THEN Panic(n, "assert: handle_bootstrap_failure")
    ELSE [n EXCEPT !.stage = StageTerminated]

handle_bootstrap_failure(n) ==
    IF n.stage.tag # "Bootstrapping"
    THEN Panic(n, "assert: handle_bootstrap_failure")
    ELSE [send_event(n, "Terminated", "None") EXCEPT !.stage = StageTerminated]

\* Joining::handle_timeout: TRUE when the token is the one of the join timer
JoiningHandleTimeout(n, token) == token = "Join"

\* A variant of handle_timeout that rebootstraps in whatever stage the join
\* timer fires
handle_timeout_in_any_stage(n, token) ==
    IF token = "Transport" THEN n
    ELSE IF is_running(n) /\ token = "Join" THEN rebootstrap(n) ELSE n

handle_timeout(n, token) ==
    IF token = "Transport" THEN n   \* core.transport.handle_timeout(token)
    ELSE IF n.stage.tag = "Joining" /\ JoiningHandleTimeout(n, token)
         THEN rebootstrap(n)
         ELSE n

\* A variant of handle_send_message that does not look at the destination first
handle_send_message_unchecked(n, dst) ==
    CASE n.stage.tag = "Approved" ->
            Transport([n EXCEPT !.result = "Ok"], "user_message", dst, NoMsg, NoVersion)
      [] dst = "Direct" -> [n EXCEPT !.result = "BadLocation"]
      [] OTHER -> [n EXCEPT !.result = "Ok"]

handle_send_message(n, dst) ==
    CASE dst = "Direct" -> [n EXCEPT !.result = "BadLocation"]
      [] n.stage.tag = "Approved" ->
            \* Approved::send_routing_message(src, dst, Variant::UserMessage(content))
            Transport([n EXCEPT !.result = "Ok"], "user_message", dst, NoMsg, NoVersion)
      [] OTHER -> [n EXCEPT !.result = "Ok"]

\* An input: a network event or an action, with the outcome o of the calls into
\* the code that is not modelled
Input(kind, peer_kind, peer, msg, o, token, dst) ==
    [kind |-> kind, peer_kind |-> peer_kind, peer |-> peer, msg |-> msg, o |-> o,
     token |-> token, dst |-> dst]

\* A variant of handle_finish that terminates the way a bootstrap failure does
handle_finish_emitting(n) ==
    [send_event(n, "Terminated", "None") EXCEPT !.stage = StageTerminated]

\* The Finish arm of handle_network_event
handle_finish(n) == [n EXCEPT !.stage = StageTerminated]

\* The handler of a network event, up to finish_handle_input
EventHandler(n, in) ==
    CASE in.kind = "BootstrappedTo" -> handle_bootstrapped_to(n, in.peer)
      [] in.kind = "BootstrapFailure" -> handle_bootstrap_failure(n)
      [] in.kind = "NewMessage" /\ in.peer_kind = "Node" ->
            handle_new_message(n, in.peer, in.msg, in.o)
      [] in.kind = "Finish" -> handle_finish(n)
      \* ConnectedTo, ConnectionFailure, UnsentUserMessage, SentUserMessage, and
      \* every event of a client peer: nothing of the modelled state changes
      [] OTHER -> n

handle_network_event(n, in) ==
    LET r == EventHandler(n, in) IN
    IF in.kind = "Finish" THEN r ELSE finish_handle_input(r, in.o)

\* The handler of an action, up to finish_handle_input
ActionHandler(n, in) ==
    CASE in.kind = "SendMessage" -> handle_send_message(n, in.dst)
      [] in.kind = "HandleTimeout" -> handle_timeout(n, in.token)
      [] in.kind = "DisconnectClient" ->
            Transport([n EXCEPT !.result = "Ok"], "disconnect", "client", NoMsg, NoVersion)
      [] OTHER ->  \* SendMessageToClient
            Transport([n EXCEPT !.result = "Ok"], "to_client", "client", NoMsg, NoVersion)

handle_action(n, in) == finish_handle_input(ActionHandler(n, in), in.o)

----------------------------------------------------------------------------
(* The duty classifier: InboundMsgAnalysis *)

\* An address is our own name ("self"), another name our prefix matches
\* ("near") or a name it does not match ("far").
Addresses == {"self", "near", "far"}

\* Address: Client(xorname), Node(xorname), Section(xorname)
Destinations ==
    [kind : {"Client", "Section"}, addr : {"near", "far"}]
    \cup [kind : {"Node"}, addr : Addresses]

\* MsgSender: Client, Node { duty }, Section { duty }; the duties are
\* Duty::Elder(ElderDuty::Gateway | Payment | Metadata) and, for the rest, Other
SenderDuties == {"Gateway", "Payment", "Metadata", "Other"}

MsgSenders ==
    {[kind |-> "Client", duty |-> "None"]}
    \cup [kind : {"Node", "Section"}, duty : SenderDuties]

\* Message: Cmd { Auth | Data { Blob | other } | Transfer }, Query { Data | other },
\* and the rest (events, responses, errors)
MessageKinds == {"CmdAuth", "CmdDataBlob", "CmdDataOther", "CmdTransfer",
                 "QueryData", "Other"}

\* MsgEnvelope { message, origin, proxies }: most_recent_sender() is the last
\* proxy, or the origin when there is none
Envelopes ==
    {e \in [dst : Destinations, sender : MsgSenders, origin : {"Client", "Other"},
            message : MessageKinds] :
        e.sender.kind = "Client" => e.origin = "Client"}

NoEnvelope ==
    [dst |-> [kind |-> "Node", addr |-> "self"],
     sender |-> [kind |-> "Client", duty |-> "None"],
     origin |-> "Client", message |-> "Other"]

NodeDuties == {"Infant", "Adult", "Elder"}

is_elder(d) == d = "Elder"

is_adult(d) == d = "Adult"

\* routing.matches_our_prefix(xorname), false when it fails
self_is_handler_for(address) == address \in {"self", "near"}

is_dst_for(msg) == self_is_handler_for(msg.dst.addr)

IsDataCmd(msg) == msg.message \in {"CmdDataBlob", "CmdDataOther"}

IsChunkCmd(msg) == msg.message = "CmdDataBlob"

IsAuthCmd(msg) == msg.message = "CmdAuth"

\* A variant of should_accumulate_for_metadata_write that never accumulates
should_accumulate_for_metadata_write_never(msg, d) == FALSE

should_accumulate_for_metadata_write(msg, d) ==
    /\ IsDataCmd(msg)
    /\ msg.sender = [kind |-> "Node", duty |-> "Payment"]
    /\ is_dst_for(msg)
    /\ is_elder(d)

should_accumulate_for_adult(msg, d) ==
    /\ IsChunkCmd(msg)
    /\ msg.sender = [kind |-> "Node", duty |-> "Metadata"]
    /\ is_dst_for(msg)
    /\ is_adult(d)

should_accumulate(msg, d) ==
    should_accumulate_for_metadata_write(msg, d) \/ should_accumulate_for_adult(msg, d)

should_forward_to_network(msg, d) ==
    LET destined_for_network ==
            CASE msg.dst.kind = "Client" -> ~self_is_handler_for(msg.dst.addr)
              [] msg.dst.kind = "Node" -> msg.dst.addr # "self"
              [] OTHER -> ~self_is_handler_for(msg.dst.addr)
        from_client == msg.sender.kind = "Client"
    IN  destined_for_network \/ (from_client /\ ~IsAuthCmd(msg))

should_run_at_gateway_auth(msg, d) ==
    /\ msg.origin = "Client"
    /\ msg.sender = [kind |-> "Section", duty |-> "Gateway"]
    /\ IsAuthCmd(msg)
    /\ is_dst_for(msg)
    /\ is_elder(d)

\* A variant of should_run_at_data_payment that takes data commands only
should_run_at_data_payment_cmd_only(msg, d) ==
    /\ IsDataCmd(msg)
    /\ msg.sender = [kind |-> "Node", duty |-> "Gateway"]
    /\ is_dst_for(msg)
    /\ is_elder(d)

should_run_at_data_payment(msg, d) ==
    /\ (IsDataCmd(msg) \/ msg.message = "QueryData")
    /\ msg.sender = [kind |-> "Node", duty |-> "Gateway"]
    /\ is_dst_for(msg)
    /\ is_elder(d)

should_run_at_metadata_write(msg, d) ==
    /\ IsDataCmd(msg)
    /\ msg.sender = [kind |-> "Section", duty |-> "Payment"]
    /\ is_dst_for(msg)
    /\ is_elder(d)

\* A variant of should_run_at_adult that runs at a node of any duty
should_run_at_adult_any_duty(msg, d) ==
    /\ IsChunkCmd(msg)
    /\ msg.sender = [kind |-> "Section", duty |-> "Metadata"]
    /\ is_dst_for(msg)

should_run_at_adult(msg, d) ==
    /\ IsChunkCmd(msg)
    /\ msg.sender = [kind |-> "Section", duty |-> "Metadata"]
    /\ is_dst_for(msg)
    /\ is_adult(d)

should_run_at_rewards(msg, d) == FALSE

\* A variant of should_run_at_transfers that waits for the gateway section
should_run_at_transfers_section(msg, d) ==
    /\ msg.message = "CmdTransfer"
    /\ msg.sender = [kind |-> "Section", duty |-> "Gateway"]
    /\ is_dst_for(msg)
    /\ is_elder(d)

should_run_at_transfers(msg, d) ==
    /\ msg.message = "CmdTransfer"
    /\ msg.sender = [kind |-> "Node", duty |-> "Gateway"]
    /\ is_dst_for(msg)
    /\ is_elder(d)

\* A variant of should_push_to_client that pushes to the clients of any section
should_push_to_any_client(msg, d) == msg.dst.kind = "Client"

should_push_to_client(msg, d) ==
    msg.dst.kind = "Client" /\ self_is_handler_for(msg.dst.addr)

\* A variant of evaluate that tests should_push_to_client first
evaluate_client_first(msg, d) ==
    CASE should_push_to_client(msg, d) -> "SendToClient"
      [] should_accumulate(msg, d) -> "Accumulate"
      [] should_forward_to_network(msg, d) -> "ForwardToNetwork"
      [] should_run_at_gateway_auth(msg, d) -> "RunAtGateway"
      [] should_run_at_data_payment(msg, d) -> "RunAtPayment"
      [] should_run_at_metadata_write(msg, d) -> "RunAtMetadata"
      [] should_run_at_adult(msg, d) -> "RunAtAdult"
      [] should_run_at_rewards(msg, d) -> "RunAtRewards"
      [] should_run_at_transfers(msg, d) -> "RunAtTransfers"
      [] OTHER -> "Unknown"

\* A variant of evaluate that hands what no test claims to the rewards duty
evaluate_rewards_default(msg, d) ==
    CASE should_accumulate(msg, d) -> "Accumulate"
      [] should_forward_to_network(msg, d) -> "ForwardToNetwork"
      [] should_push_to_client(msg, d) -> "SendToClient"
      [] should_run_at_gateway_auth(msg, d) -> "RunAtGateway"
      [] should_run_at_data_payment(msg, d) -> "RunAtPayment"
      [] should_run_at_metadata_write(msg, d) -> "RunAtMetadata"
      [] should_run_at_adult(msg, d) -> "RunAtAdult"
      [] should_run_at_transfers(msg, d) -> "RunAtTransfers"
      [] OTHER -> "RunAtRewards"

evaluate(msg, d) ==
    CASE should_accumulate(msg, d) -> "Accumulate"
      [] should_forward_to_network(msg, d) -> "ForwardToNetwork"
      [] should_push_to_client(msg, d) -> "SendToClient"
      [] should_run_at_gateway_auth(msg, d) -> "RunAtGateway"
      [] should_run_at_data_payment(msg, d) -> "RunAtPayment"
      [] should_run_at_metadata_write(msg, d) -> "RunAtMetadata"
      [] should_run_at_adult(msg, d) -> "RunAtAdult"
      [] should_run_at_rewards(msg, d) -> "RunAtRewards"
      [] should_run_at_transfers(msg, d) -> "RunAtTransfers"
      [] OTHER -> "Unknown"

----------------------------------------------------------------------------
(* The mapping of client messages to node duties: event_mapping/client_msg.rs *)

EndUsers == {"u1", "u2"}

MsgIds == 1 .. MaxMsgId

\* ProcessMsg: Query { Data | Transfer(..) }, Cmd { Data | Transfer(..) }, and
\* the kinds map_client_process_msg has no arm for
MappedProcessMsgs ==
    {"QueryData", "CmdData", "CmdTransferValidateTransfer", "CmdTransferSimulatePayout",
     "CmdTransferRegisterTransfer", "QueryTransferGetHistory", "QueryTransferGetBalance",
     "QueryTransferGetStoreCost"}

ProcessMsgs == MappedProcessMsgs \cup {"Event", "QueryResponse", "CmdError"}

\* ClientMsg: Process(ProcessMsg), ProcessingError, SupportingInfo
ClientMsgs ==
    [kind : {"Process"}, process : ProcessMsgs, id : MsgIds]
    \cup [kind : {"ProcessingError", "SupportingInfo"}, process : {"None"}, id : MsgIds]

NoClientMsg == [kind |-> "None", process |-> "None", id |-> 0]

\* MessageId::in_response_to: an id derived from the id of the request
in_response_to(msg_id) == 0 - msg_id

\* A NodeDuty that handles the message locally
LocalDuty(duty, process_msg, origin) ==
    [duty |-> duty, origin |-> origin, msg_id |-> process_msg.id, error |-> "None",
     source_message |-> "None", dst |-> "None"]

\* NodeDuty::Send(OutgoingMsg { msg: ClientMsg::ProcessingError(..), dst, .. })
SendProcessingError(error, process_msg, id, dst) ==
    [duty |-> "Send", origin |-> "None", msg_id |-> id, error |-> error,
     source_message |-> process_msg.process, dst |-> dst]

NoOp ==
    [duty |-> "NoOp", origin |-> "None", msg_id |-> 0, error |-> "None",
     source_message |-> "None", dst |-> "None"]

map_client_process_msg(process_msg, origin) ==
    CASE process_msg.process = "QueryData" -> LocalDuty("ProcessRead", process_msg, origin)
      [] process_msg.process = "CmdData" ->
            LocalDuty("ProcessDataPayment", process_msg, origin)
      [] process_msg.process = "CmdTransferValidateTransfer" ->
            LocalDuty("ValidateClientTransfer", process_msg, origin)
      [] process_msg.process = "CmdTransferSimulatePayout" ->
            LocalDuty("SimulatePayout", process_msg, origin)
      [] process_msg.process = "CmdTransferRegisterTransfer" ->
            LocalDuty("RegisterTransfer", process_msg, origin)
      [] process_msg.process = "QueryTransferGetHistory" ->
            LocalDuty("GetTransfersHistory", process_msg, origin)
      [] process_msg.process = "QueryTransferGetBalance" ->
            LocalDuty("GetBalance", process_msg, origin)
      [] process_msg.process = "QueryTransferGetStoreCost" ->
            LocalDuty("GetStoreCost", process_msg, origin)
      [] OTHER ->
            \* Error::InvalidMessage(msg_id, "Unknown user msg"), sent to
            \* SrcLocation::EndUser(origin).to_dst()
            SendProcessingError("InvalidMessage", process_msg,
                                in_response_to(process_msg.id), origin)

\* ctx: None
NoCtx == [msg |-> NoClientMsg, src |-> "None"]

\* Mapping { op, ctx }
map_client_msg(msg, user_) ==
    IF msg.kind = "Process"
    THEN [op |-> map_client_process_msg(msg, user_), ctx |-> [msg |-> msg, src |-> user_]]
    ELSE [op |-> NoOp, ctx |-> NoCtx]

NoMapping == [op |-> NoOp, ctx |-> NoCtx]

----------------------------------------------------------------------------
(* The self-encrypting blob store of the client: client/client_api/blob_apis.rs.
   Byte strings are kept as what they were made of: the user's bytes, a
   serialised DataMapLevel, a serialised Chunk, or a leaf chunk of the
   self-encryptor. The sizes below are scaled down so that a data map of a
   few entries already exceeds a chunk. *)

\* Chunk::validate_size: the most bytes the value of a chunk may hold
MaxChunkSize == 4
\* The most bytes the self-encryptor puts into one leaf chunk
LeafSize == 2
\* Data shorter than this stays inside the data map (DataMap::Content)
MinEncryptableSize == 2
\* Bytes of one chunk entry of a serialised data map, of the rest of a
\* serialised DataMapLevel, and of what serialising a Chunk adds to its value
EntrySize == 1
HeaderSize == 1
ChunkOverhead == 1

\* PublicKey of the client, and one of somebody else; NoOwner: Option::None
PublicKeys == {"k1", "k2"}
NoOwner == "None"

\* The user's bytes
RawBytes(x) ==
    [form |-> "raw", tag |-> "None", owner |-> NoOwner, raw |-> x, inner |-> <<>>]

\* The payloads: for each length, the bytes 1, 2, ..
Payloads == {RawBytes([i \in 1 .. n |-> i]) : n \in 0 .. MaxLen}

\* Chunks the self-encryptor makes of n bytes
NumChunks(n) ==
    IF n < MinEncryptableSize THEN 0 ELSE (n + LeafSize - 1) \div LeafSize

\* The length of a byte string
RECURSIVE Size(_)
Size(b) ==
    CASE b.form = "raw" -> Len(b.raw)
      [] b.form = "level" ->
            (LET n == Size(b.inner[1]) IN
             HeaderSize + (IF NumChunks(n) = 0 THEN n ELSE NumChunks(n) * EntrySize))
      [] b.form = "chunk" -> Size(b.inner[1]) + ChunkOverhead
      [] OTHER ->  \* the i-th leaf chunk of b.inner[1]
            (LET n == Size(b.inner[1]) IN
             IF b.raw[1] < NumChunks(n) THEN LeafSize ELSE n - (NumChunks(n) - 1) * LeafSize)

\* The DataMap of the self-encryptor for the data: DataMap::Content(data) for
\* short data, else DataMap::Chunks with the names its storage generated for
\* the leaf chunks: the names of a private storage depend on the owner
DataMapOf(data, owner) ==
    [content |-> data, owner |-> IF NumChunks(Size(data)) = 0 THEN NoOwner ELSE owner]

\* PublicChunk::new(value).into()
PublicChunk(value) == [public |-> TRUE, owner |-> NoOwner, value |-> value]

\* PrivateChunk::new(value, owner).into()
PrivateChunk(value, owner) == [public |-> FALSE, owner |-> owner, value |-> value]

\* Chunk::name: the hash of the value, and of the owner of a private chunk
ChunkName(chunk) == [value |-> chunk.value, owner |-> chunk.owner]

\* Chunk::address: ChunkAddress::Public(name) or ChunkAddress::Private(name)
ChunkAddress(chunk) ==
    [kind |-> IF chunk.public THEN "Public" ELSE "Private", name |-> ChunkName(chunk)]

validate_size(chunk) == Size(chunk.value) <= MaxChunkSize

\* serialize(&DataMapLevel::Root(data_map)) / serialize(&DataMapLevel::Child(data_map))
SerializeLevel(tag, data_map) ==
    [form |-> "level", tag |-> tag, owner |-> data_map.owner, raw |-> <<>>,
     inner |-> <<data_map.content>>]

\* serialize(&chunk)
SerializeChunk(chunk) ==
    [form |-> "chunk", tag |-> IF chunk.public THEN "Public" ELSE "Private",
     owner |-> chunk.owner, raw |-> <<>>, inner |-> <<chunk.value>>]

\* deserialize::<DataMapLevel>: fails on bytes that are no serialised level
DeserializeLevel(b) ==
    IF b.form = "level"
    THEN [ok |-> TRUE, tag |-> b.tag, data_map |-> [content |-> b.inner[1], owner |-> b.owner]]
    ELSE [ok |-> FALSE, tag |-> "None", data_map |-> [content |-> b, owner |-> NoOwner]]

\* deserialize::<Chunk>: fails on bytes that are no serialised chunk
DeserializeChunk(b) ==
    IF b.form = "chunk"
    THEN [ok |-> TRUE,
          chunk |-> [public |-> b.tag = "Public", owner |-> b.owner, value |-> b.inner[1]]]
    ELSE [ok |-> FALSE, chunk |-> PublicChunk(b)]

\* The i-th leaf chunk the self-encryptor makes of the data
LeafBytes(data, i) ==
    [form |-> "leaf", tag |-> "None", owner |-> NoOwner, raw |-> <<i>>, inner |-> <<data>>]

\* The chunk the storage of the self-encryptor keeps the i-th leaf in:
\* BlobStorage / BlobStorageDryRun make a public chunk, or a private chunk of
\* the owner
LeafChunk(data, owner, i) ==
    IF owner = NoOwner THEN PublicChunk(LeafBytes(data, i))
    ELSE PrivateChunk(LeafBytes(data, i), owner)

\* A variant of the dry run that wraps every level as a Root
RECURSIVE BlobDataMapLoopAllRoots(_, _, _)
BlobDataMapLoopAllRoots(data, privately_owned, is_original_data) ==
    LET data_map == DataMapOf(data, privately_owned)
        chunk_content == SerializeLevel("Root", data_map)
        chunk == IF privately_owned # NoOwner
                 THEN PrivateChunk(chunk_content, privately_owned)
                 ELSE PublicChunk(chunk_content)
    IN  IF validate_size(chunk)
        THEN [data_map |-> data_map, address |-> ChunkAddress(chunk)]
        ELSE BlobDataMapLoopAllRoots(SerializeChunk(chunk), privately_owned, FALSE)

\* The loop of blob_data_map
RECURSIVE BlobDataMapLoop(_, _, _)
BlobDataMapLoop(data, privately_owned, is_original_data) ==
    LET data_map == DataMapOf(data, privately_owned)
        chunk_content == SerializeLevel(IF is_original_data THEN "Root" ELSE "Child",
                                        data_map)
        chunk == IF privately_owned # NoOwner
                 THEN PrivateChunk(chunk_content, privately_owned)
                 ELSE PublicChunk(chunk_content)
    IN  IF validate_size(chunk)
        THEN [data_map |-> data_map, address |-> ChunkAddress(chunk)]
        ELSE BlobDataMapLoop(SerializeChunk(chunk), privately_owned, FALSE)

\* Client::blob_data_map: the data map and the head address, made offline
blob_data_map(data, privately_owned) == BlobDataMapLoop(data, privately_owned, TRUE)

\* The client during one call of its API: its key, the chunks the network
\* holds, the commands the call has sent, the command at which paying fails
\* (0: none does), and the error the call has returned with
NoErr == "none"
NoPosition == 0 - 1
Client(net, fails_at) ==
    [public_key |-> "k1", net |-> net, sent |-> <<>>, fails_at |-> fails_at, err |-> NoErr]

\* return Err(e)
Fail(c, e) == [c EXCEPT !.err = e]

\* DataCmd::Blob(ChunkWrite::New(chunk))
ChunkWriteNew(chunk) == [op |-> "New", address |-> ChunkAddress(chunk), chunk |-> <<chunk>>]

\* DataCmd::Blob(ChunkWrite::DeletePrivate(address))
ChunkWriteDeletePrivate(address) == [op |-> "DeletePrivate", address |-> address, chunk |-> <<>>]

\* Client::pay_and_send_data_command: pays for the command and sends it; the
\* network applies it later
pay_and_send_data_command(c, cmd) ==
    IF c.err # NoErr THEN c
    ELSE IF c.fails_at = Len(c.sent) + 1 THEN Fail(c, "Payment")
    ELSE [c EXCEPT !.sent = Append(@, cmd)]

\* A variant that refuses a chunk the network holds already
store_chunk_on_network_once(c, chunk) ==
    IF c.err # NoErr THEN c
    ELSE IF ~validate_size(chunk) THEN Fail(c, "ExceededSize")
    ELSE IF \E ch \in c.net : ChunkAddress(ch) = ChunkAddress(chunk) THEN Fail(c, "DataExists")
    ELSE pay_and_send_data_command(c, ChunkWriteNew(chunk))

store_chunk_on_network(c, chunk) ==
    IF c.err # NoErr THEN c
    ELSE IF ~validate_size(chunk) THEN Fail(c, "ExceededSize")
    ELSE pay_and_send_data_command(c, ChunkWriteNew(chunk))

delete_chunk_from_network(c, address) ==
    pay_and_send_data_command(c, ChunkWriteDeletePrivate(address))

\* The chunks the network holds at the address
ChunksAt(net, address) == {ch \in net : ChunkAddress(ch) = address}

NoChunk == PublicChunk(RawBytes(<<>>))

\* A variant that finds the chunk by its name alone
fetch_blob_from_network_by_name(c, head_address) ==
    LET named == {ch \in c.net : ChunkName(ch) = head_address.name} IN
    IF c.err # NoErr THEN [c |-> c, chunk |-> NoChunk]
    ELSE IF named = {} THEN [c |-> Fail(c, "DataNotFound"), chunk |-> NoChunk]
    ELSE [c |-> c, chunk |-> CHOOSE ch \in named : TRUE]

fetch_blob_from_network(c, head_address) ==
    IF c.err # NoErr THEN [c |-> c, chunk |-> NoChunk]
    ELSE IF ChunksAt(c.net, head_address) = {}
    THEN [c |-> Fail(c, "DataNotFound"), chunk |-> NoChunk]
    ELSE [c |-> c, chunk |-> CHOOSE ch \in ChunksAt(c.net, head_address) : TRUE]

\* SelfEncryptor::write and close over a BlobStorage: every leaf chunk is put
\* with store_chunk_on_network, in order
RECURSIVE PutLeaves(_, _, _, _)
PutLeaves(c, data, owner, i) ==
    IF i > NumChunks(Size(data)) THEN c
    ELSE PutLeaves(store_chunk_on_network(c, LeafChunk(data, owner, i)), data, owner, i + 1)

write_to_network(c, data, public) ==
    LET owner == IF public THEN NoOwner ELSE c.public_key IN
    [c |-> PutLeaves(c, data, owner, 1), data_map |-> DataMapOf(data, owner)]

\* A variant of pack that returns the first chunk whatever its size
pack_without_rewrap(c, contents, public) ==
    [c |-> c,
     chunk |-> IF public THEN PublicChunk(contents) ELSE PrivateChunk(contents, c.public_key)]

RECURSIVE pack(_, _, _)
pack(c, contents, public) ==
    LET chunk == IF public THEN PublicChunk(contents)
                 ELSE PrivateChunk(contents, c.public_key)
        w == write_to_network(c, SerializeChunk(chunk), public)
    IN  IF c.err # NoErr \/ validate_size(chunk) THEN [c |-> c, chunk |-> chunk]
        ELSE pack(w.c, SerializeLevel("Child", w.data_map), public)

\* The result of a call: Ok(address), Ok(bytes), Ok(()) or Err(c.err)
Returned(c, address, bytes) ==
    [c |-> c, address |-> IF c.err = NoErr THEN address ELSE <<>>,
     bytes |-> IF c.err = NoErr THEN bytes ELSE <<>>]

\* A variant that stores the head chunk before the chunks below it
create_new_blob_head_first(c, data, public) ==
    LET offline == pack(Client(c.net, 0), SerializeLevel("Root", DataMapOf(data,
                        IF public THEN NoOwner ELSE c.public_key)), public)
        h == store_chunk_on_network(c, offline.chunk)
        w == write_to_network(h, data, public)
        p == pack(w.c, SerializeLevel("Root", w.data_map), public)
    IN  Returned(p.c, <<ChunkAddress(p.chunk)>>, <<>>)

create_new_blob(c, data, public) ==
    LET w == write_to_network(c, data, public)
        chunk_content == SerializeLevel("Root", w.data_map)
        p == pack(w.c, chunk_content, public)
        blob_head == ChunkAddress(p.chunk)
    IN  Returned(store_chunk_on_network(p.c, p.chunk), <<blob_head>>, <<>>)

store_public_blob(c, data) == create_new_blob(c, data, TRUE)

store_private_blob(c, data) == create_new_blob(c, data, FALSE)

\* BlobStorage::get of the i-th leaf of the data map: the chunk at
\* ChunkAddress::Public(name) or ChunkAddress::Private(name)
LeafAddress(data_map, public, i) ==
    [kind |-> IF public THEN "Public" ELSE "Private",
     name |-> [value |-> LeafBytes(data_map.content, i), owner |-> data_map.owner]]

LeavesHeld(net, data_map, public) ==
    \A i \in 1 .. NumChunks(Size(data_map.content)) :
        ChunksAt(net, LeafAddress(data_map, public, i)) # {}

\* What SelfEncryptor::read gives for a range that ends after the data
BeyondOutcomes == {"Err", "Zeros", "Short"}

\* The bytes of the data from read_position on, length of them
ReadRange(data, read_position, length, beyond) ==
    LET n == Size(data)
        upto == IF read_position + length <= n THEN read_position + length ELSE n
        held == IF data.form = "raw"
                THEN SubSeq(data.raw, read_position + 1, upto)
                ELSE <<>>
        pad == [i \in 1 .. (read_position + length - n) |-> 0]
    IN  IF read_position = 0 /\ length = n THEN [ok |-> TRUE, bytes |-> data]
        ELSE IF read_position + length <= n THEN [ok |-> TRUE, bytes |-> RawBytes(held)]
        ELSE IF beyond = "Err" THEN [ok |-> FALSE, bytes |-> data]
        ELSE IF beyond = "Short" THEN [ok |-> TRUE, bytes |-> RawBytes(held)]
        ELSE [ok |-> TRUE, bytes |-> RawBytes(held \o pad)]

\* A variant that reads from the start whatever the position
read_using_data_map_from_start(c, data_map, public, position, len, beyond) ==
    LET length == IF len = NoPosition THEN Size(data_map.content) ELSE len
        r == ReadRange(data_map.content, 0, length, beyond)
    IN  IF c.err # NoErr THEN [c |-> c, bytes |-> data_map.content]
        ELSE IF ~LeavesHeld(c.net, data_map, public) \/ ~r.ok
        THEN [c |-> Fail(c, "SelfEncryption"), bytes |-> data_map.content]
        ELSE [c |-> c, bytes |-> r.bytes]

read_using_data_map(c, data_map, public, position, len, beyond) ==
    LET length == IF len = NoPosition THEN Size(data_map.content) ELSE len
        read_position == IF position = NoPosition THEN 0 ELSE position
        r == ReadRange(data_map.content, read_position, length, beyond)
    IN  IF c.err # NoErr THEN [c |-> c, bytes |-> data_map.content]
        ELSE IF ~LeavesHeld(c.net, data_map, public) \/ ~r.ok
        THEN [c |-> Fail(c, "SelfEncryption"), bytes |-> data_map.content]
        ELSE [c |-> c, bytes |-> r.bytes]

\* A variant of unpack that returns the data map of the first level it finds
unpack_one_level(c, chunk) ==
    LET level == DeserializeLevel(chunk.value) IN
    IF c.err # NoErr THEN [c |-> c, data_map |-> level.data_map]
    ELSE IF ~level.ok THEN [c |-> Fail(c, "Serialisation"), data_map |-> level.data_map]
    ELSE [c |-> c, data_map |-> level.data_map]

RECURSIVE unpack(_, _)
unpack(c, chunk) ==
    LET public == chunk.public
        level == DeserializeLevel(chunk.value)
        r == read_using_data_map(c, level.data_map, public, NoPosition, NoPosition, "Err")
        next == DeserializeChunk(r.bytes)
    IN  IF c.err # NoErr THEN [c |-> c, data_map |-> level.data_map]
        ELSE IF ~level.ok THEN [c |-> Fail(c, "Serialisation"), data_map |-> level.data_map]
        ELSE IF level.tag = "Root" THEN [c |-> c, data_map |-> level.data_map]
        ELSE IF r.c.err # NoErr THEN [c |-> r.c, data_map |-> level.data_map]
        ELSE IF ~next.ok THEN [c |-> Fail(c, "Serialisation"), data_map |-> level.data_map]
        ELSE unpack(r.c, next.chunk)

read_blob(c, head_address, position, len, beyond) ==
    LET f == fetch_blob_from_network(c, head_address)
        public == head_address.kind = "Public"
        u == unpack(f.c, f.chunk)
        r == read_using_data_map(u.c, u.data_map, public, position, len, beyond)
    IN  Returned(r.c, <<>>, <<r.bytes>>)

\* SelfEncryptor::delete over a BlobStorage: every leaf chunk of the data map
\* is deleted with delete_chunk_from_network(ChunkAddress::Private(name))
RECURSIVE DeleteLeaves(_, _, _)
DeleteLeaves(c, data_map, i) ==
    IF i > NumChunks(Size(data_map.content)) THEN c
    ELSE DeleteLeaves(delete_chunk_from_network(c, LeafAddress(data_map, FALSE, i)),
                      data_map, i + 1)

\* A variant that deletes the first leaf chunk of the data map only
delete_using_data_map_first_only(c, data_map) ==
    IF NumChunks(Size(data_map.content)) = 0 THEN c
    ELSE delete_chunk_from_network(c, LeafAddress(data_map, FALSE, 1))

delete_using_data_map(c, data_map) == DeleteLeaves(c, data_map, 1)

\* A variant of delete_blob that leaves the head chunk
delete_blob_keeping_head(c, head_chunk) ==
    LET f == fetch_blob_from_network(c, head_chunk)
        d == DeleteLeaves(f.c, DeserializeLevel(f.chunk.value).data_map, 1)
    IN  [c |-> d, address |-> <<>>, bytes |-> <<>>]

\* The loop of delete_blob
RECURSIVE DeleteBlobLoop(_, _)
DeleteBlobLoop(c, chunk) ==
    LET level == DeserializeLevel(chunk.value)
        r == read_using_data_map(c, level.data_map, FALSE, NoPosition, NoPosition, "Err")
        d == delete_using_data_map(r.c, level.data_map)
        next == DeserializeChunk(r.bytes)
    IN  IF c.err # NoErr THEN c
        ELSE IF ~level.ok THEN Fail(c, "Serialisation")
        ELSE IF level.tag = "Root" THEN delete_using_data_map(c, level.data_map)
        ELSE IF d.err # NoErr THEN d
        ELSE IF ~next.ok THEN Fail(d, "Serialisation")
        ELSE DeleteBlobLoop(d, next.chunk)

\* A variant that requests the deletion of the head before it fetches it
delete_blob_unfetched(c, head_chunk) ==
    LET d == delete_chunk_from_network(c, head_chunk)
        f == fetch_blob_from_network(d, head_chunk)
    IN  Returned(DeleteBlobLoop(f.c, f.chunk), <<>>, <<>>)

delete_blob(c, head_chunk) ==
    LET f == fetch_blob_from_network(c, head_chunk)
        d == delete_chunk_from_network(f.c, head_chunk)
    IN  Returned(DeleteBlobLoop(d, f.chunk), <<>>, <<>>)

\* The network applying a command: a new chunk is kept, once; a private chunk
\* is removed; a delete of a public address is refused
ApplyCmd(net, cmd) ==
    IF cmd.op = "New" THEN net \cup {cmd.chunk[1]}
    ELSE IF cmd.address.kind = "Private" THEN net \ ChunksAt(net, cmd.address)
    ELSE net

----------------------------------------------------------------------------
(* The node as a state machine: one action per input *)

NoInput(kind) == Input(kind, "None", "none", NoMsg, "ok", "None", "Direct")

\* ApprovedPeer::new: a regular node starts bootstrapping
new ==
    Transport([stage |-> BootstrappingNew(None), full_id |-> 0, msg_queue |-> <<>>,
               msg_filter |-> {}, outbox |-> <<>>, sent |-> <<>>,
               result |-> "none", panic |-> "none", dispatched |-> <<>>],
              "bootstrap", "none", NoMsg, NoVersion)

\* ApprovedPeer::first: the first node of the network is approved at once, or
\* terminated when Approved::first fails
first(ok) ==
    LET n == [stage |-> StageTerminated, full_id |-> 0, msg_queue |-> <<>>,
              msg_filter |-> {}, outbox |-> <<>>, sent |-> <<>>,
              result |-> "none", panic |-> "none", dispatched |-> <<>>]
    IN  IF ok
        THEN send_event(send_event([n EXCEPT !.stage = ApprovedNew],
                                   "Connected", "First"), "Promoted", "None")
        ELSE n

EvalIdle ==
    /\ env = NoEnvelope
    /\ duties = "Infant"
    /\ action = "None"

\* No EldersChanged event is being mapped
NoEvent == [self_status_change |-> "None", genesis |-> FALSE, is_elder |-> FALSE,
            at |-> "idle"]

EldersIdle ==
    /\ elders_event = NoEvent
    /\ sanity_counter = 0
    /\ polls = 0

MapIdle ==
    /\ client_msg = NoClientMsg
    /\ user = "none"
    /\ mapping = NoMapping
    /\ EldersIdle

\* Before a call of the blob API
NoData == [form |-> "none", tag |-> "None", owner |-> NoOwner, raw |-> <<>>, inner |-> <<>>]
NoBlobLast ==
    [op |-> "none", public |-> FALSE, owner |-> NoOwner, target |-> <<>>,
     position |-> NoPosition, len |-> NoPosition, fails_at |-> 0,
     err |-> NoErr, address |-> <<>>, bytes |-> <<>>, sent |-> <<>>,
     net |-> {}, in_flight |-> <<>>]

BlobIdle ==
    /\ net_chunks = {}
    /\ in_flight = <<>>
    /\ payload = NoData
    /\ calls = <<>>
    /\ blob_last = NoBlobLast

\* The observation of an input: the input, and whether try_handle_message
\* queued its message
Observation(in, queued, dispatched) ==
    [kind |-> in.kind, peer_kind |-> in.peer_kind, peer |-> in.peer, msg |-> in.msg,
     o |-> in.o, token |-> in.token, dst |-> in.dst, queued |-> queued,
     dispatched |-> dispatched]

\* The observation of no input
NoLast == Observation(NoInput("none"), FALSE, <<>>)

NoPre == [stage |-> StageTerminated, full_id |-> 0, msg_queue |-> <<>>, msg_filter |-> {}]

\* No resend is scheduled
TimerIdle ==
    /\ now = 0
    /\ timer = {}
    /\ resent = {}

Constructed(n) ==
    /\ TimerIdle
    /\ stage = n.stage
    /\ full_id = n.full_id
    /\ msg_queue = n.msg_queue
    /\ msg_filter = n.msg_filter
    /\ outbox = n.outbox
    /\ sent = n.sent
    /\ panic = n.panic
    /\ result = "none"
    /\ last = NoLast
    /\ pre = NoPre

Init ==
    /\ \/ Constructed(new)
       \/ \E ok \in BOOLEAN : Constructed(first(ok))
    /\ EvalIdle
    /\ MapIdle
    /\ BlobIdle

\* The node handles the input in and is left as r; mid is the node between the
\* handler and finish_handle_input. last, pre, outbox, sent and result observe
\* the step: the input, the node before it and what the handlers put out. They
\* are written by the step that ends a behaviour and by no other, which leaves
\* the node's behaviour as it is: every step the node can take is the observed
\* step of some behaviour.
Handles(r) ==
    /\ panic = "none"
    /\ last.kind = "none"
    /\ r.full_id <= MaxIdentity
    /\ Cardinality(r.msg_filter) <= MaxFilter
    /\ stage' = r.stage
    /\ full_id' = r.full_id
    /\ msg_queue' = r.msg_queue
    /\ msg_filter' = r.msg_filter
    /\ panic' = r.panic
    /\ UNCHANGED <<evalVars, mapVars, blobVars>>

\* The step is not the last of the behaviour: nothing of it is observed
Unobserved ==
    /\ outbox' = <<>>
    /\ sent' = <<>>
    /\ result' = "none"
    /\ last' = NoLast
    /\ pre' = NoPre

Step(in, mid, r) ==
    /\ Handles(r)
    /\ \/ /\ outbox' = r.outbox
          /\ sent' = r.sent
          /\ result' = r.result
          /\ last' = Observation(in, Len(mid.msg_queue) > Len(msg_queue), r.dispatched)
          /\ pre' = [stage |-> stage, full_id |-> full_id, msg_queue |-> msg_queue,
                     msg_filter |-> msg_filter]
       \/ Unobserved

NetworkEvent(in) ==
    /\ Step(in, EventHandler(Self, in), handle_network_event(Self, in))
    /\ UNCHANGED timerVars

Action(in) ==
    /\ Step(in, ActionHandler(Self, in), handle_action(Self, in))
    /\ UNCHANGED timerVars

\* The outcomes that make a difference for a message
OutcomesOf(m) ==
    {"ok", "verify_err", "verify_false"}
    \cup (IF m.variant = "UserMessage" THEN {"bad_body"} ELSE {})
    \cup (IF m.variant = "UserMessage" /\ m.dst # "Direct" THEN {"relay_err"} ELSE {})
    \cup (IF m.variant \in {"BootstrapResponseJoin", "Relocate"} THEN {"ok_alt"} ELSE {})
    \cup (IF m.variant \in {"BootstrapResponseJoin", "BootstrapResponseRebootstrap",
                            "Bounce", "Relocate"} THEN {"ok_err"} ELSE {})

NewMessage ==
    \E peer \in Peers, m \in Messages :
        \E o \in OutcomesOf(m) :
            NetworkEvent(Input("NewMessage", "Node", peer, m, o, "None", "Direct"))

NewMessageUndecodable ==
    \E peer \in Peers :
        NetworkEvent(Input("NewMessage", "Node", peer, NoMsg, "bad_bytes", "None", "Direct"))

BootstrappedTo ==
    \E peer \in Peers :
        NetworkEvent(Input("BootstrappedTo", "Node", peer, NoMsg, "ok", "None", "Direct"))

BootstrapFailure == NetworkEvent(NoInput("BootstrapFailure"))

Finish == NetworkEvent(NoInput("Finish"))

PeerEvent ==
    \E kind \in {"ConnectedTo", "ConnectionFailure", "UnsentUserMessage",
                 "SentUserMessage", "NewMessage"}, peer_kind \in {"Node", "Client"} :
        /\ kind = "NewMessage" => peer_kind = "Client"
        /\ NetworkEvent(Input(kind, peer_kind, "p1", NoMsg, "ok", "None", "Direct"))

SendMessage ==
    \E dst \in Dsts :
        Action(Input("SendMessage", "None", "none", NoMsg, "ok", "None", dst))

HandleTimeout ==
    \E token \in Tokens :
        Action(Input("HandleTimeout", "None", "none", NoMsg, "ok", token, "Direct"))

ClientAction ==
    \E kind \in {"DisconnectClient", "SendMessageToClient"} : Action(NoInput(kind))

Next ==
    \/ NewMessage
    \/ NewMessageUndecodable
    \/ BootstrappedTo
    \/ BootstrapFailure
    \/ Finish
    \/ PeerEvent
    \/ SendMessage
    \/ HandleTimeout
    \/ ClientAction

Spec == Init /\ [][Next]_vars

----------------------------------------------------------------------------
(* The node and its timer: what the handlers send at once, the resends
   handle_bounce schedules, the time that passes and the resends the timer
   emits once they are due *)

\* The clock ticks TicksPerSecond times a second, up to MaxClock ticks
TicksPerSecond == 2
MaxClock == 4

\* Timer::schedule for what a handler asked to be sent later: an entry due
\* the delay after the time of the call
Schedule(asked, at) ==
    {[to |-> asked[i].to, msg |-> asked[i].msg, since |-> at,
      due |-> at + asked[i].delay * TicksPerSecond] :
        i \in {k \in DOMAIN asked : asked[k].op = "later"}}

\* What a handler had the transport send at once, with the time of the call
SentAtOnce(asked, at) ==
    {[to |-> asked[i].to, msg |-> asked[i].msg, since |-> at, at |-> at] :
        i \in {k \in DOMAIN asked : asked[k].op # "later" /\ asked[k].msg \in BouncedBytes}}

\* A Bounce, or the bootstrap response that takes the node on to Joining,
\* arrives from a peer while at most one resend is pending
BounceArrives ==
    \E peer \in Peers :
        \E m \in {x \in Messages : x.variant \in {"Bounce", "BootstrapResponseJoin"}
                                    /\ x.dst = "Direct"} :
                LET in == Input("NewMessage", "Node", peer, m, "ok", "None", "Direct")
                    r == handle_network_event(Self, in)
                IN  /\ Cardinality(timer) <= 1
                    /\ Handles(r)
                    /\ Unobserved
                    /\ timer' = timer \cup Schedule(r.sent, now)
                    /\ resent' = resent \cup SentAtOnce(r.sent, now)
                    /\ now' = now

\* Time passes once the timer has emitted what is due
Tick ==
    /\ now < MaxClock
    /\ \A t \in timer : t.due > now
    /\ now' = now + 1
    /\ resent' = {}
    /\ UNCHANGED <<nodeVars, evalVars, mapVars, blobVars, timer>>

\* ApprovedPeer::process_timers: the timer emits a resend that is due
process_timers ==
    \E t \in timer :
        /\ t.due <= now
        /\ timer' = timer \ {t}
        /\ resent' = resent \cup {[to |-> t.to, msg |-> t.msg, since |-> t.since, at |-> now]}
        /\ UNCHANGED <<nodeVars, evalVars, mapVars, blobVars, now>>

NextBounce == BounceArrives \/ Tick \/ process_timers

SpecBounce == Init /\ [][NextBounce]_vars

----------------------------------------------------------------------------
(* handle_messages on a queue that holds more than the message of the input
   at hand: the queue is given, as earlier calls of handle_message left it,
   and one more message arrives *)

MaxQueue == 2

\* The messages sent Direct that the stage of n accepts
Acceptable(n) == {m \in Messages : m.dst = "Direct" /\ should_handle_message(n, m)}

\* The sequences of up to len messages of ms, no message twice (the incoming
\* filter lets none in twice), all of them queued for the sender peer
RECURSIVE Queues(_, _, _)
Queues(ms, peer, len) ==
    IF len = 0 THEN {<<>>}
    ELSE LET shorter == Queues(ms, peer, len - 1) IN
         shorter \cup
         {Append(q, [message |-> m, sender |-> peer]) :
              q \in {x \in shorter : Len(x) = len - 1},
              m \in ms}

NoTwice(q) == \A i, j \in DOMAIN q : q[i] = q[j] => i = j

\* The node n with the messages of q accepted and not yet dispatched
Pending(n, q) ==
    [n EXCEPT !.msg_queue = q,
              !.msg_filter = {q[i].message : i \in DOMAIN q},
              !.outbox = <<>>,
              !.sent = <<>>]

InitQueue ==
    /\ \E n \in {new, first(TRUE)}, peer \in Peers :
          \E q \in {x \in Queues(Acceptable(n), peer, MaxQueue) : x # <<>> /\ NoTwice(x)} :
              Constructed(Pending(n, q))
    /\ EvalIdle
    /\ MapIdle
    /\ BlobIdle

\* One more message of the peer arrives while the queue holds the earlier ones
ArrivesBehind ==
    /\ msg_queue # <<>>
    /\ \E m \in {x \in Messages : x.dst = "Direct"} :
          \E o \in {"ok", "verify_false"} :
              NetworkEvent(Input("NewMessage", "Node", msg_queue[1].sender, m, o,
                                 "None", "Direct"))

NextQueue == ArrivesBehind

SpecQueue == InitQueue /\ [][NextQueue]_vars

----------------------------------------------------------------------------
(* map_routing_event for RoutingEvent::EldersChanged: the polling loops that
   wait for the key set of the new elders. Every turn of a loop is a step: the
   loop asks network_api.our_public_key_set() and sleeps 500 ms. *)

\* The budget of the sanity counter
SanityLimit == 240

\* The polls counted, at most
MaxPolls == 245

\* What our_public_key_set answers: an error, the key set of the new elders,
\* or a key set that is not theirs yet
KeySetAnswers == {"err", "match", "lagging"}

\* NodeDuty of an EldersChanged mapping
EldersDuty(duty, newbie) ==
    [duty |-> duty, origin |-> "None", msg_id |-> 0, error |-> "None",
     source_message |-> "None", dst |-> "None", newbie |-> newbie]

EldersMapping(duty, newbie) == [op |-> EldersDuty(duty, newbie), ctx |-> NoCtx]

\* The events, with what network_api answers before the loops: first section
\* and first elder (genesis), is_elder
EldersChangedEvents ==
    [self_status_change : {"None", "Promoted", "Demoted"}, genesis : BOOLEAN,
     is_elder : BOOLEAN, at : {"start"}]

InitElders ==
    /\ Constructed(new)
    /\ EvalIdle
    /\ BlobIdle
    /\ client_msg = NoClientMsg
    /\ user = "none"
    /\ mapping = NoMapping
    /\ elders_event \in EldersChangedEvents
    /\ sanity_counter = 0
    /\ polls = 0

Returns(m) ==
    /\ mapping' = m
    /\ elders_event' = [elders_event EXCEPT !.at = "returned"]

Polled ==
    /\ polls' = IF polls < MaxPolls THEN polls + 1 ELSE polls
    /\ UNCHANGED <<mapping, elders_event>>

\* map_routing_event up to the loops
EldersChanged ==
    /\ elders_event.at = "start"
    /\ CASE elders_event.genesis -> Returns(EldersMapping("Genesis", FALSE))
         [] elders_event.self_status_change = "None" /\ ~elders_event.is_elder ->
               Returns(EldersMapping("NoOp", FALSE))
         [] elders_event.self_status_change = "Demoted" ->
               Returns(EldersMapping("LevelDown", FALSE))
         [] OTHER ->
               /\ elders_event' = [elders_event EXCEPT !.at = "polling"]
               /\ UNCHANGED mapping
    /\ UNCHANGED <<sanity_counter, polls, client_msg, user>>
    /\ UNCHANGED <<nodeVars, timerVars, evalVars, blobVars>>

\* A turn of the loop of NodeElderChange::None: while sanity_counter < 240
PollStillElder(answer) ==
    IF sanity_counter < SanityLimit
    THEN CASE answer = "match" ->
                 \* break
                 Returns(EldersMapping("EldersChanged", FALSE))
                 /\ UNCHANGED <<sanity_counter, polls>>
           [] answer = "lagging" ->
                 \* we seem to be lagging the DKG
                 UNCHANGED sanity_counter /\ Polled
           [] OTHER ->
                 sanity_counter' = sanity_counter + 1 /\ Polled
    ELSE Returns(EldersMapping("EldersChanged", FALSE))
         /\ UNCHANGED <<sanity_counter, polls>>

\* A turn of the loop of NodeElderChange::Promoted:
\* while our_public_key_set().is_err()
PollPromoted(answer) ==
    IF answer = "err"
    THEN IF sanity_counter > SanityLimit
         THEN Returns(EldersMapping("NoOp", FALSE))
              /\ UNCHANGED <<sanity_counter, polls>>
         ELSE sanity_counter' = sanity_counter + 1 /\ Polled
    ELSE Returns(EldersMapping("EldersChanged", TRUE))
         /\ UNCHANGED <<sanity_counter, polls>>

StillElderPolls ==
    /\ elders_event.at = "polling"
    /\ elders_event.self_status_change = "None"
    /\ \E answer \in KeySetAnswers : PollStillElder(answer)
    /\ UNCHANGED <<client_msg, user>>
    /\ UNCHANGED <<nodeVars, timerVars, evalVars, blobVars>>

PromotedPolls ==
    /\ elders_event.at = "polling"
    /\ elders_event.self_status_change = "Promoted"
    /\ \E answer \in KeySetAnswers : PollPromoted(answer)
    /\ UNCHANGED <<client_msg, user>>
    /\ UNCHANGED <<nodeVars, timerVars, evalVars, blobVars>>

NextElders == EldersChanged \/ StillElderPolls \/ PromotedPolls

SpecElders == InitElders /\ [][NextElders]_vars

----------------------------------------------------------------------------
(* The classifier applied to every envelope at every node, and the mapping
   applied to every client message. The two share no state: the client
   messages arrive at the node whose classifier is idle. *)

InitEval ==
    /\ Constructed(new)
    /\ env \in Envelopes
    /\ duties \in NodeDuties
    /\ action = "None"
    /\ MapIdle
    /\ BlobIdle

Evaluate ==
    /\ action = "None"
    /\ action' = evaluate(env, duties)
    /\ UNCHANGED <<env, duties>>
    /\ UNCHANGED <<nodeVars, timerVars, mapVars, blobVars>>

\* map_routing_event, RoutingEvent::ClientMsgReceived { msg, user }
ClientMsgReceived ==
    /\ EvalIdle
    /\ client_msg = NoClientMsg
    /\ \E msg \in ClientMsgs, u \in EndUsers :
          /\ client_msg' = msg
          /\ user' = u
          /\ mapping' = map_client_msg(msg, u)
    /\ UNCHANGED <<nodeVars, timerVars, evalVars, blobVars, elders_event, sanity_counter, polls>>

NextEval == Evaluate \/ ClientMsgReceived

SpecEval == InitEval /\ [][NextEval]_vars

----------------------------------------------------------------------------
(* The client storing, reading and deleting one blob. A call of the API runs
   to its return in one step; the commands it sent are applied by the network
   one at a time, in the order sent. A read and a dry run change nothing, so
   the client goes on from the state before them. *)

InitBlob ==
    /\ Constructed(new)
    /\ EvalIdle
    /\ MapIdle
    /\ net_chunks = {}
    /\ in_flight = <<>>
    /\ payload \in Payloads
    /\ calls = <<>>
    /\ blob_last = NoBlobLast

\* The addresses the client reads and deletes at: the head of its blob, public
\* and private
HeadAddresses == {blob_data_map(payload, o).address : o \in {NoOwner, "k1"}}

\* The commands at which paying may fail during the call that sends cmds when
\* none fails: a client short of tokens is so from its first call on
FailPoints(cmds) == IF calls = <<>> THEN 0 .. Len(cmds) ELSE {0}

\* The observation of a call
BlobObservation(op, public, owner, target, position, len, fails_at, r) ==
    [op |-> op, public |-> public, owner |-> owner, target |-> target,
     position |-> position, len |-> len, fails_at |-> fails_at,
     err |-> r.c.err, address |-> r.address, bytes |-> r.bytes, sent |-> r.c.sent,
     net |-> net_chunks, in_flight |-> in_flight]

\* The client goes on after a store or a delete
Ongoing ==
    /\ payload # NoData
    /\ blob_last.op \in {"none", "store", "delete", "store_chunk"}

\* The client makes a further store or delete call: it has waited for the
\* network to apply the commands of the call before, and has not run out of
\* tokens
Paying ==
    /\ Len(calls) < MaxCalls
    /\ in_flight = <<>>
    /\ \A i \in 1 .. Len(calls) : calls[i].err # "Payment"

\* store_public_blob(data) / store_private_blob(data)
StoreBlob ==
    /\ Ongoing
    /\ Paying
    /\ \E public \in BOOLEAN :
       \E fails_at \in FailPoints(create_new_blob(Client(net_chunks, 0), payload, public).c.sent) :
          LET c == Client(net_chunks, fails_at)
              r == IF public THEN store_public_blob(c, payload) ELSE store_private_blob(c, payload)
          IN  /\ in_flight' = in_flight \o r.c.sent
              /\ calls' = Append(calls, [op |-> "store", public |-> public,
                                         err |-> r.c.err, address |-> r.address])
              /\ blob_last' = BlobObservation("store", public, NoOwner, <<>>,
                                              NoPosition, NoPosition, fails_at, r)
    /\ UNCHANGED <<net_chunks, payload>>
    /\ UNCHANGED <<nodeVars, timerVars, evalVars, mapVars>>

\* delete_blob(head_chunk)
DeleteBlob ==
    /\ Ongoing
    /\ Paying
    /\ \E head_chunk \in HeadAddresses :
       \E fails_at \in FailPoints(delete_blob(Client(net_chunks, 0), head_chunk).c.sent) :
          LET r == delete_blob(Client(net_chunks, fails_at), head_chunk)
          IN  /\ in_flight' = in_flight \o r.c.sent
              /\ calls' = Append(calls, [op |-> "delete", public |-> head_chunk.kind = "Public",
                                         err |-> r.c.err, address |-> <<head_chunk>>])
              /\ blob_last' = BlobObservation("delete", head_chunk.kind = "Public", NoOwner,
                                              <<head_chunk>>, NoPosition, NoPosition,
                                              fails_at, r)
    /\ UNCHANGED <<net_chunks, payload>>
    /\ UNCHANGED <<nodeVars, timerVars, evalVars, mapVars>>

\* The positions and lengths asked of read_blob: None, or a number up to one
\* past the end of the data; the whole blob while commands are in flight
Positions ==
    IF in_flight = <<>> THEN {NoPosition} \cup (0 .. Size(payload) + 1) ELSE {NoPosition}

\* The end of the range asked for
RangeEnd(position, len) ==
    (IF position = NoPosition THEN 0 ELSE position)
    + (IF len = NoPosition THEN Size(payload) ELSE len)

\* The range ends after the data
EndsAfter(position, len) == RangeEnd(position, len) > Size(payload)

\* read_blob(head_address, position, len), position and len among the given
Read(positions) ==
    /\ Ongoing
    /\ \E head_address \in HeadAddresses, position \in positions, len \in positions :
       \E beyond \in IF EndsAfter(position, len) THEN BeyondOutcomes ELSE {"Err"} :
          LET r == read_blob(Client(net_chunks, 0), head_address, position, len, beyond)
          IN  /\ RangeEnd(position, len) <= Size(payload) + 1
              /\ blob_last' = BlobObservation("read", head_address.kind = "Public", NoOwner,
                                           <<head_address>>, position, len, 0, r)
    /\ UNCHANGED <<net_chunks, in_flight, payload, calls>>
    /\ UNCHANGED <<nodeVars, timerVars, evalVars, mapVars>>

\* read_blob of any range
ReadBlob == Read(Positions)

\* read_blob(head_address, None, None)
ReadWhole == Read({NoPosition})

\* Client::blob_data_map(data, privately_owned)
BlobDataMap ==
    /\ Ongoing
    /\ \E privately_owned \in {NoOwner} \cup PublicKeys :
          LET m == blob_data_map(payload, privately_owned)
              r == [c |-> Client(net_chunks, 0), address |-> <<m.address>>, bytes |-> <<>>]
          IN  blob_last' = BlobObservation("blob_data_map", privately_owned = NoOwner,
                                           privately_owned, <<>>, NoPosition, NoPosition, 0, r)
    /\ UNCHANGED <<net_chunks, in_flight, payload, calls>>
    /\ UNCHANGED <<nodeVars, timerVars, evalVars, mapVars>>

\* The network applies the oldest command in flight
NetworkApply ==
    /\ in_flight # <<>>
    /\ net_chunks' = ApplyCmd(net_chunks, Head(in_flight))
    /\ in_flight' = Tail(in_flight)
    /\ blob_last' = NoBlobLast
    /\ UNCHANGED <<payload, calls>>
    /\ UNCHANGED <<nodeVars, timerVars, evalVars, mapVars>>

NextBlob == StoreBlob \/ DeleteBlob \/ ReadBlob \/ BlobDataMap \/ NetworkApply

SpecBlob == InitBlob /\ [][NextBlob]_vars

\* The chunk made of the payload itself, without self-encryption
PayloadChunk(public) ==
    IF public THEN PublicChunk(payload)
    ELSE PrivateChunk(payload, Client(net_chunks, 0).public_key)

\* store_chunk_on_network(chunk), the chunk holding the payload as it is
StoreChunk ==
    /\ Ongoing
    /\ Paying
    /\ \E public \in BOOLEAN :
       \E fails_at \in FailPoints(store_chunk_on_network(Client(net_chunks, 0),
                                                         PayloadChunk(public)).sent) :
          LET r == Returned(store_chunk_on_network(Client(net_chunks, fails_at),
                                                   PayloadChunk(public)), <<>>, <<>>)
          IN  /\ in_flight' = in_flight \o r.c.sent
              /\ calls' = Append(calls, [op |-> "store_chunk", public |-> public,
                                         err |-> r.c.err, address |-> <<>>])
              /\ blob_last' = BlobObservation("store_chunk", public, NoOwner, <<>>,
                                              NoPosition, NoPosition, fails_at, r)
    /\ UNCHANGED <<net_chunks, payload>>
    /\ UNCHANGED <<nodeVars, timerVars, evalVars, mapVars>>

\* ChunkAddress::Private(*address.name()) of a public address, and
\* ChunkAddress::Public(*address.name()) of a private one
OtherKind(address) ==
    [kind |-> IF address.kind = "Public" THEN "Private" ELSE "Public", name |-> address.name]

\* read_blob(address, None, None) at the name of a head address, with the
\* other kind
ReadAcross ==
    /\ Ongoing
    /\ \E head_address \in HeadAddresses :
          LET address == OtherKind(head_address)
              r == read_blob(Client(net_chunks, 0), address, NoPosition, NoPosition, "Err")
          IN  blob_last' = BlobObservation("read", address.kind = "Public", NoOwner,
                                           <<address>>, NoPosition, NoPosition, 0, r)
    /\ UNCHANGED <<net_chunks, in_flight, payload, calls>>
    /\ UNCHANGED <<nodeVars, timerVars, evalVars, mapVars>>

\* The client that reads at both kinds of address
NextBlobAcross == StoreBlob \/ DeleteBlob \/ ReadWhole \/ ReadAcross \/ NetworkApply

SpecBlobAcross == InitBlob /\ [][NextBlobAcross]_vars

\* The client that stores blobs and single chunks
NextBlobStore == StoreBlob \/ StoreChunk \/ NetworkApply

SpecBlobStore == InitBlob /\ [][NextBlobStore]_vars

\* The client that reads whole blobs only, and the network that applies every
\* command it was sent
NextBlobFair == StoreBlob \/ DeleteBlob \/ ReadWhole \/ BlobDataMap \/ NetworkApply

SpecBlobFair == InitBlob /\ [][NextBlobFair]_vars /\ WF_vars(NetworkApply)

----------------------------------------------------------------------------
(* Properties of the node *)

\* The node as it was before the observed input
PreNode ==
    [stage |-> pre.stage, full_id |-> pre.full_id, msg_queue |-> pre.msg_queue,
     msg_filter |-> pre.msg_filter, outbox |-> <<>>, sent |-> <<>>,
     result |-> "none", panic |-> "none", dispatched |-> <<>>]

\* An input has been observed
Observed == last.kind # "none"

\* The observed input is a message of a node peer that dispatch_message got
Dispatched(tag, variants) ==
    /\ last.kind = "NewMessage"
    /\ last.queued
    /\ pre.stage.tag = tag
    /\ last.msg.variant \in variants

\* The stage's handler took its main branch
MainBranch == last.o \notin {"ok_alt", "ok_err"}

CountEvents(event) == Cardinality({i \in DOMAIN outbox : outbox[i].event = event})

\* What the node asked of the transport for its peers and the network
RoutingOps == {"relay", "bounce", "later", "user_message", "bootstrap", "bootstrap_request"}

SentOps(ops) == {i \in DOMAIN sent : sent[i].op \in ops}

\* A Bounce of msg went to the peer
BouncedTo(peer, msg) ==
    \E i \in DOMAIN sent : sent[i].op = "bounce" /\ sent[i].to = peer /\ sent[i].msg = msg

\* C1: Terminated is absorbing: every input that arrives once the stage is
\* Terminated is ignored: the stage stays Terminated, no message is sent,
\* relayed, bounced or queued, no event is emitted and no handler panics.
C1_TerminatedAbsorbing ==
    (Observed /\ pre.stage.tag = "Terminated") =>
        /\ stage.tag = "Terminated"
        /\ SentOps(RoutingOps) = {}
        /\ msg_queue = <<>>
        /\ outbox = <<>>
        /\ panic = "none"

\* C2: a Finish event sets the stage to Terminated in that same step, in every
\* stage, without draining the message queue, without any event or any request
\* to the transport; and a node that is Terminated stays so (is_running is
\* false from then on).
C2_FinishTerminates ==
    /\ last.kind = "Finish" =>
          /\ stage = StageTerminated
          /\ ~is_running(Self)
          /\ msg_queue = pre.msg_queue
          /\ msg_filter = pre.msg_filter
          /\ full_id = pre.full_id
          /\ outbox = <<>>
          /\ sent = <<>>
          /\ panic = "none"
    /\ (Observed /\ ~is_running(PreNode)) => ~is_running(Self)

C2_Witness ==
    last.kind = "Finish" /\ pre.stage.tag = "Joining" /\ stage.tag = "Terminated"

\* C3: a bootstrap failure handled by a bootstrapping node terminates it: the
\* stage is Terminated and exactly one Terminated event went to the outbox.
C3_BootstrapFailureTerminates ==
    (last.kind = "BootstrapFailure" /\ pre.stage.tag = "Bootstrapping") =>
        /\ stage.tag = "Terminated"
        /\ CountEvents("Terminated") = 1
        /\ Len(outbox) = 1
        /\ panic = "none"

C3_Witness ==
    /\ last.kind = "BootstrapFailure"
    /\ pre.stage.tag = "Bootstrapping"
    /\ stage.tag = "Terminated"
    /\ outbox = <<[event |-> "Terminated", arg |-> "None"]>>

\* C4: a Bootstrapping node that dispatches a bootstrap response whose outcome
\* is Finished { elders_info, relocate_payload } (a Join) moves to Joining,
\* targeting those elders and carrying the relocate payload the Bootstrapping
\* stage held; when the outcome is Ongoing (a Rebootstrap, an ignored response)
\* the node stays in Bootstrapping with what it held.
C4_BootstrapResponse ==
    Dispatched("Bootstrapping", {"BootstrapResponseJoin", "BootstrapResponseRebootstrap"}) =>
        LET st == BootstrappingHandleBootstrapResponse(PreNode, last.msg, last.o) IN
        IF last.o = "ok_err" THEN stage = pre.stage
        ELSE IF st.status = "Finished"
             THEN /\ last.msg.variant = "BootstrapResponseJoin"
                  /\ stage.tag = "Joining"
                  /\ stage.elders_info = last.msg.arg
                  /\ stage.relocate = pre.stage.relocate
             ELSE stage = pre.stage

C4_Witness ==
    /\ Dispatched("Bootstrapping", {"BootstrapResponseJoin"})
    /\ pre.stage.relocate # None
    /\ stage.tag = "Joining"
    /\ stage.elders_info = 2
    /\ stage.relocate = pre.stage.relocate

\* C5: a Joining node that dispatches a NodeApproval moves to Approved and
\* emits exactly one Connected event, whose connect type is the one the Joining
\* stage recorded.
C5_Approval ==
    Dispatched("Joining", {"NodeApproval"}) =>
        /\ stage.tag = "Approved"
        /\ CountEvents("Connected") = 1
        /\ \A i \in DOMAIN outbox :
              outbox[i].event = "Connected" => outbox[i].arg = pre.stage.connect_type

C5_Witness ==
    /\ Dispatched("Joining", {"NodeApproval"})
    /\ stage.tag = "Approved"
    /\ outbox = <<[event |-> "Connected", arg |-> "First"]>>

\* C6: an Approved node that accepts a Relocate moves to Bootstrapping holding
\* the relocate details; a Bootstrapping node that holds relocate details keeps
\* them through every input until it terminates or joins, and the join (the
\* next transition to Joining) carries them.
C6_RelocateRetained ==
    /\ (Dispatched("Approved", {"Relocate"}) /\ MainBranch) =>
          /\ stage.tag = "Bootstrapping"
          /\ stage.relocate = last.msg.arg
          /\ stage.relocate # None
    /\ (Observed /\ pre.stage.tag = "Bootstrapping" /\ pre.stage.relocate # None) =>
          \/ stage = pre.stage
          \/ stage.tag = "Joining" /\ stage.relocate = pre.stage.relocate
          \/ stage.tag = "Terminated"

C6_Witness ==
    /\ Dispatched("Approved", {"Relocate"})
    /\ stage.tag = "Bootstrapping"
    /\ stage.relocate = last.msg.arg
    /\ stage.relocate # None

\* C7: the join timeout of a Joining node rebootstraps it: the stage is
\* Bootstrapping, the transport has been asked to bootstrap again and the
\* identity is a fresh one.
C7_JoinTimeoutRebootstraps ==
    (last.kind = "HandleTimeout" /\ pre.stage.tag = "Joining"
        /\ JoiningHandleTimeout(PreNode, last.token)) =>
        /\ stage.tag = "Bootstrapping"
        /\ SentOps({"bootstrap"}) # {}
        /\ full_id > pre.full_id

C7_Witness ==
    /\ last.kind = "HandleTimeout"
    /\ last.token = "Join"
    /\ pre.stage.tag = "Joining"
    /\ stage.tag = "Bootstrapping"
    /\ full_id = pre.full_id + 1

\* C8: a Joining node that receives a join rejection (JoinResponse::Rejected)
\* moves to Bootstrapping with a freshly generated identity.
C8_RejectionRebootstraps ==
    (last.kind = "NewMessage" /\ last.peer_kind = "Node" /\ pre.stage.tag = "Joining"
        /\ last.msg.variant = "JoinResponseRejected" /\ last.o = "ok") =>
        /\ stage.tag = "Bootstrapping"
        /\ full_id > pre.full_id

\* The observed input is a decoded message of a node peer, in the location of
\* the node, that the relay step did not fail on
InLocation ==
    /\ last.kind = "NewMessage"
    /\ last.peer_kind = "Node"
    /\ last.o \notin {"bad_bytes", "bad_body"}
    /\ ~(Relays(PreNode, last.msg) /\ pre.stage.tag = "Approved" /\ last.o = "relay_err")
    /\ in_dst_location(PreNode, last.msg.dst)

\* C9 as stated: a message is queued only if should_handle_message and
\* verify_message both accept it, and every message that is not accepted is
\* answered with a Bounce to its immediate sender.
C9_BounceWheneverNotHandled ==
    InLocation =>
        /\ last.queued =>
              /\ should_handle_message(PreNode, last.msg)
              /\ verify_message(PreNode, last.msg, last.o) = "true"
        /\ ~last.queued => BouncedTo(last.peer, last.msg)

\* C9, amended: a message is queued and recorded in the incoming filter only if
\* should_handle_message and verify_message both accept it; a message in the
\* location of the node that is not in the filter yet and that
\* should_handle_message rejects, or verify_message answers Ok(false) for, is
\* answered with a Bounce to its immediate sender; a message that is in the
\* filter already, or whose verification fails with an error, is dropped:
\* neither handled nor bounced.
C9_HandledOnlyIfVerified ==
    (last.kind = "NewMessage" /\ last.peer_kind = "Node") =>
        /\ last.queued =>
              /\ InLocation
              /\ should_handle_message(PreNode, last.msg)
              /\ verify_message(PreNode, last.msg, last.o) = "true"
              /\ last.msg \notin pre.msg_filter
              /\ msg_filter = pre.msg_filter \cup {last.msg}
        /\ ~last.queued => msg_filter = pre.msg_filter
        /\ InLocation =>
              LET known == last.msg \in pre.msg_filter
                  handle == should_handle_message(PreNode, last.msg)
                  verify == verify_message(PreNode, last.msg, last.o)
              IN  /\ (~known /\ (~handle \/ verify = "false")) =>
                          ~last.queued /\ BouncedTo(last.peer, last.msg)
                  /\ (known \/ (handle /\ verify = "err")) =>
                          ~last.queued /\ SentOps({"bounce"}) = {}

C9_Witness ==
    /\ InLocation
    /\ should_handle_message(PreNode, last.msg)
    /\ last.o = "verify_false"
    /\ ~last.queued
    /\ msg_filter = {}
    /\ BouncedTo(last.peer, last.msg)

----------------------------------------------------------------------------
(* Properties of the duty classifier *)

\* The action of the first of the tests that holds, Unknown when none does
RECURSIVE FirstMatch(_)
FirstMatch(tests) ==
    IF tests = <<>> THEN "Unknown"
    ELSE IF Head(tests).holds THEN Head(tests).action
         ELSE FirstMatch(Tail(tests))

Test(action_, holds) == [action |-> action_, holds |-> holds]

\* The order of the table of the specification
TableOrder(msg, d) ==
    <<Test("SendToClient", should_push_to_client(msg, d)),
      Test("Accumulate", should_accumulate(msg, d)),
      Test("RunAtPayment", should_run_at_data_payment(msg, d)),
      Test("RunAtMetadata", should_run_at_metadata_write(msg, d)),
      Test("RunAtAdult", should_run_at_adult(msg, d)),
      Test("RunAtTransfers", should_run_at_transfers(msg, d))>>

\* The order of the tests with accumulate and forward ahead of the client
SourceOrder(msg, d) ==
    <<Test("Accumulate", should_accumulate(msg, d)),
      Test("ForwardToNetwork", should_forward_to_network(msg, d)),
      Test("SendToClient", should_push_to_client(msg, d)),
      Test("RunAtGateway", should_run_at_gateway_auth(msg, d)),
      Test("RunAtPayment", should_run_at_data_payment(msg, d)),
      Test("RunAtMetadata", should_run_at_metadata_write(msg, d)),
      Test("RunAtAdult", should_run_at_adult(msg, d)),
      Test("RunAtTransfers", should_run_at_transfers(msg, d))>>

\* The envelope is addressed to us
AddressedToUs(msg) ==
    IF msg.dst.kind = "Node" THEN msg.dst.addr = "self"
    ELSE self_is_handler_for(msg.dst.addr)

Evaluated == action # "None"

\* C10 as stated: evaluate maps every envelope addressed to us to one action,
\* the action of the first predicate that holds in the order of the table: push
\* to client, accumulate, payment, metadata, adult, transfers, unknown.
C10_TableOrder ==
    (Evaluated /\ AddressedToUs(env)) => action = FirstMatch(TableOrder(env, duties))

\* C10, amended: evaluate maps every envelope to exactly one action, the action
\* of the first predicate that holds in the order accumulate, forward to
\* network, push to client, gateway (auth), payment, metadata, adult,
\* transfers, and Unknown when none holds.
C10_SourceOrder ==
    Evaluated => action = FirstMatch(SourceOrder(env, duties))

C10_Witness ==
    /\ Evaluated
    /\ should_push_to_client(env, duties)
    /\ should_accumulate(env, duties)
    /\ action = "Accumulate"

\* The envelope is addressed to this node or to its section
ToUs(msg) == msg.dst.kind # "Client" /\ AddressedToUs(msg)

\* C11 as stated: every envelope whose destination is a client address handled
\* by this node is classified SendToClient, whatever its most recent sender and
\* its message.
C11_ClientAlwaysPushed ==
    (Evaluated /\ should_push_to_client(env, duties)) => action = "SendToClient"

\* C11, amended: an envelope whose destination is a client address handled by
\* this node is classified SendToClient unless a test that evaluate makes
\* earlier holds: Accumulate when should_accumulate holds (a data command of a
\* single Payment elder at an elder, a chunk command of a single Metadata elder
\* at an adult), else ForwardToNetwork when the most recent sender is a client
\* and the message is not an auth command.
C11_ClientPushedUnlessEarlier ==
    (Evaluated /\ should_push_to_client(env, duties)) =>
        action = IF should_accumulate(env, duties) THEN "Accumulate"
                 ELSE IF env.sender.kind = "Client" /\ ~IsAuthCmd(env)
                      THEN "ForwardToNetwork"
                      ELSE "SendToClient"

C11_Witness ==
    /\ Evaluated
    /\ should_push_to_client(env, duties)
    /\ env.sender.kind = "Section"
    /\ env.message = "Other"
    /\ action = "SendToClient"

\* C12: at an elder, an envelope addressed to us whose most recent sender is a
\* single elder of gateway duty and whose message is a data command or a data
\* query is classified RunAtPayment, and so is not accumulated.
C12_Payment ==
    (/\ Evaluated
     /\ is_elder(duties)
     /\ ToUs(env)
     /\ env.sender = [kind |-> "Node", duty |-> "Gateway"]
     /\ env.message \in {"CmdDataBlob", "CmdDataOther", "QueryData"}) =>
        action = "RunAtPayment" /\ action # "Accumulate"

C12_Witness ==
    /\ Evaluated
    /\ duties = "Elder"
    /\ ToUs(env)
    /\ env.sender = [kind |-> "Node", duty |-> "Gateway"]
    /\ env.message = "QueryData"
    /\ action = "RunAtPayment"

\* C13: at an elder, a data command addressed to us is classified RunAtMetadata
\* when its most recent sender is the Payment section, and Accumulate (never
\* RunAtMetadata) when its most recent sender is a single Payment elder.
C13_Metadata ==
    (/\ Evaluated
     /\ is_elder(duties)
     /\ ToUs(env)
     /\ env.message \in {"CmdDataBlob", "CmdDataOther"}) =>
        /\ env.sender = [kind |-> "Section", duty |-> "Payment"] => action = "RunAtMetadata"
        /\ env.sender = [kind |-> "Node", duty |-> "Payment"] => action = "Accumulate"

C13_Witness ==
    /\ Evaluated
    /\ duties = "Elder"
    /\ ToUs(env)
    /\ env.message = "CmdDataOther"
    /\ env.sender = [kind |-> "Node", duty |-> "Payment"]
    /\ action = "Accumulate"

\* C14: a chunk command addressed to us whose most recent sender is the
\* Metadata section is classified RunAtAdult if and only if this node is an
\* adult: never at an elder or an infant.
C14_Adult ==
    (/\ Evaluated
     /\ ToUs(env)
     /\ env.sender = [kind |-> "Section", duty |-> "Metadata"]
     /\ env.message = "CmdDataBlob") =>
        (action = "RunAtAdult" <=> duties = "Adult")

C14_Witness ==
    /\ Evaluated
    /\ duties = "Adult"
    /\ ToUs(env)
    /\ env.sender = [kind |-> "Section", duty |-> "Metadata"]
    /\ env.message = "CmdDataBlob"
    /\ action = "RunAtAdult"

\* C15: at an elder, a transfer command addressed to us whose most recent
\* sender is a single gateway elder is classified RunAtTransfers.
C15_Transfers ==
    (/\ Evaluated
     /\ is_elder(duties)
     /\ ToUs(env)
     /\ env.sender = [kind |-> "Node", duty |-> "Gateway"]
     /\ env.message = "CmdTransfer") =>
        action = "RunAtTransfers"

C15_Witness ==
    /\ Evaluated
    /\ duties = "Elder"
    /\ ToUs(env)
    /\ env.sender = [kind |-> "Node", duty |-> "Gateway"]
    /\ env.message = "CmdTransfer"
    /\ action = "RunAtTransfers"

\* None of the tests of the classifier holds
NoTestHolds(msg, d) ==
    /\ ~should_accumulate(msg, d)
    /\ ~should_forward_to_network(msg, d)
    /\ ~should_push_to_client(msg, d)
    /\ ~should_run_at_gateway_auth(msg, d)
    /\ ~should_run_at_data_payment(msg, d)
    /\ ~should_run_at_metadata_write(msg, d)
    /\ ~should_run_at_adult(msg, d)
    /\ ~should_run_at_rewards(msg, d)
    /\ ~should_run_at_transfers(msg, d)

\* A client message has been mapped
Mapped == client_msg # NoClientMsg

----------------------------------------------------------------------------
(* Properties of the blob store *)

\* A call of the blob API has returned Ok
Returned_Ok(op) == blob_last.op = op /\ blob_last.err = NoErr

\* The owner a store of the given visibility puts on its chunks
OwnerOf(public) == IF public THEN NoOwner ELSE Client({}, 0).public_key

\* The level in the head chunk the observed store sent last
HeadLevel == DeserializeLevel(blob_last.sent[Len(blob_last.sent)].chunk[1].value)

\* C17: the head address blob_data_map computes offline for the payload and
\* the owner is the head address store_public_blob / store_private_blob
\* returns for the same bytes, whether the store follows the dry run or came
\* before it, and whether the head chunk is a Root or a Child level.
C17_AddressDeterminism ==
    /\ Returned_Ok("store") =>
          blob_last.address = <<blob_data_map(payload, OwnerOf(blob_last.public)).address>>
    /\ blob_last.op = "blob_data_map" =>
          \A i \in 1 .. Len(calls) :
             (calls[i].op = "store" /\ calls[i].err = NoErr
              /\ OwnerOf(calls[i].public) = blob_last.owner)
             => calls[i].address = blob_last.address

\* A private store of a payload whose head chunk is a Child level returned
C17_Witness ==
    /\ Returned_Ok("store")
    /\ ~blob_last.public
    /\ HeadLevel.tag = "Child"
    /\ DeserializeLevel(HeadLevel.data_map.content.inner[1]).tag = "Child"

\* The blob was stored at the address and the network has applied every
\* command sent: a store returned the address, and no delete of it followed
Held(a) ==
    /\ in_flight = <<>>
    /\ \E i \in 1 .. Len(calls) :
          /\ calls[i].op = "store" /\ calls[i].err = NoErr /\ calls[i].address = a
          /\ \A j \in (i + 1) .. Len(calls) :
                ~(calls[j].op = "delete" /\ calls[j].address = a)

\* The bytes of the payload in the range asked of the observed read
Slice ==
    LET from == IF blob_last.position = NoPosition THEN 0 ELSE blob_last.position
        length == IF blob_last.len = NoPosition THEN Size(payload) ELSE blob_last.len
    IN  RawBytes(SubSeq(payload.raw, from + 1, from + length))

\* C18: read_blob at the address of a stored blob returns the bytes of the
\* payload from position on, len of them, position None being 0 and len None
\* the full length, for every range within the payload, for public and private
\* blobs and for a head chunk of any level.
C18_ReadReturnsStored ==
    (/\ blob_last.op = "read"
     /\ Held(blob_last.target)
     /\ ~EndsAfter(blob_last.position, blob_last.len))
    => /\ blob_last.err = NoErr
       /\ blob_last.bytes = <<Slice>>

\* A read of an inner range of a private blob whose head chunk is a Child of
\* a Child has returned
C18_Witness ==
    /\ Returned_Ok("read")
    /\ Held(blob_last.target)
    /\ ~blob_last.public
    /\ blob_last.position > 0
    /\ blob_last.len > 1
    /\ ~EndsAfter(blob_last.position, blob_last.len)
    /\ blob_data_map(payload, OwnerOf(FALSE)).data_map.content.form = "chunk"
    /\ Len(blob_last.bytes[1].raw) = blob_last.len

\* The stores of the given visibility that returned Ok, by their place in calls
StoresOk(public) ==
    {i \in 1 .. Len(calls) :
        calls[i].op = "store" /\ calls[i].public = public /\ calls[i].err = NoErr}

\* C19: a store of the same bytes with the same visibility and owner as an
\* earlier store returns Ok and the address the earlier store returned, and
\* once the network has applied the commands the blob stored twice is read
\* whole with the bytes stored.
C19_IdempotentPut ==
    /\ (blob_last.op = "store" /\ StoresOk(blob_last.public) \ {Len(calls)} # {})
       => /\ blob_last.err = NoErr
          /\ \A i \in StoresOk(blob_last.public) : calls[i].address = blob_last.address
    /\ (/\ blob_last.op = "read"
        /\ blob_last.position = NoPosition /\ blob_last.len = NoPosition
        /\ Held(blob_last.target)
        /\ \E i, j \in StoresOk(blob_last.public) :
              i < j /\ calls[i].address = blob_last.target)
       => /\ blob_last.err = NoErr
          /\ blob_last.bytes = <<payload>>

\* A private store has returned for a blob the network held already from the
\* store before
C19_Witness ==
    /\ Returned_Ok("store")
    /\ ~blob_last.public
    /\ Len(calls) = 2
    /\ calls[1].op = "store" /\ ~calls[1].public /\ calls[1].err = NoErr
    /\ ChunksAt(blob_last.net, blob_last.address[1]) # {}
    /\ Len(blob_last.sent) > 1

\* The address of the private blob of the payload
PrivateHead == blob_data_map(payload, OwnerOf(FALSE)).address

\* delete_blob of the private blob has returned Ok
DeletedPrivate == Returned_Ok("delete") /\ blob_last.target = <<PrivateHead>>

\* read_blob of the private blob fails with DataNotFound
PrivateNotFound ==
    read_blob(Client(net_chunks, 0), PrivateHead, NoPosition, NoPosition, "Err").c.err
        = "DataNotFound"

\* The deletes of the private blob that returned Ok, by their place in calls
DeletesOk ==
    {i \in 1 .. Len(calls) :
        calls[i].op = "delete" /\ calls[i].err = NoErr /\ calls[i].address = <<PrivateHead>>}

\* A private store follows a delete of the private blob that returned Ok
Recreated == \E i \in DeletesOk, j \in StoresOk(FALSE) : i < j

\* What holds of the store after the delete, and of the read after that store
C20_Recreate ==
    /\ (blob_last.op = "store" /\ ~blob_last.public /\ DeletesOk # {})
       => /\ blob_last.err = NoErr
          /\ blob_last.address = <<PrivateHead>>
    /\ (/\ blob_last.op = "read"
        /\ blob_last.target = <<PrivateHead>>
        /\ blob_last.position = NoPosition /\ blob_last.len = NoPosition
        /\ Recreated /\ Held(blob_last.target))
       => /\ blob_last.err = NoErr
          /\ blob_last.bytes = <<payload>>

\* The read fails from the moment the network has applied the delete of the
\* head chunk, which is among the commands the delete has sent
C20_Gone ==
    (/\ Len(calls) \in DeletesOk
     /\ \A k \in 1 .. Len(in_flight) : in_flight[k] # ChunkWriteDeletePrivate(PrivateHead))
    => PrivateNotFound

\* C20: once delete_blob of a private blob has returned Ok, the network
\* applying the commands it was sent, a read of the blob comes to fail with
\* DataNotFound, at the latest when the commands of the delete are applied; a
\* store_private_blob of the same bytes after the delete returns Ok and the
\* same address, and once applied the blob is read whole with the bytes
\* stored.
C20_DeleteThenRecreate ==
    /\ DeletedPrivate ~> PrivateNotFound
    /\ []C20_Gone
    /\ []C20_Recreate

\* The private blob was stored, deleted, found gone, stored again and read
C20_Witness ==
    /\ Returned_Ok("read")
    /\ blob_last.target = <<PrivateHead>>
    /\ Len(calls) = 3
    /\ 1 \in StoresOk(FALSE) /\ 2 \in DeletesOk /\ 3 \in StoresOk(FALSE)
    /\ Held(blob_last.target)
    /\ blob_last.bytes = <<payload>>
    /\ Len(in_flight) = 0 /\ Cardinality(net_chunks) > 1

\* The address of the public blob of the payload
PublicHead == blob_data_map(payload, OwnerOf(TRUE)).address

\* The public blob was stored and the network has applied every command sent
PublicStored == in_flight = <<>> /\ StoresOk(TRUE) # {}

\* C21: delete_blob called with a public head address returns an error, and
\* removes nothing: the public blob that was stored is read whole afterwards.
C21_PublicDeleteErrors ==
    /\ (blob_last.op = "delete" /\ blob_last.target = <<PublicHead>>)
       => blob_last.err # NoErr
    /\ (/\ blob_last.op = "read"
        /\ blob_last.target = <<PublicHead>>
        /\ blob_last.position = NoPosition /\ blob_last.len = NoPosition
        /\ PublicStored)
       => /\ blob_last.err = NoErr
          /\ blob_last.bytes = <<payload>>

\* The data map in the head chunk the observed delete fetched
DeletedHeadMap ==
    DeserializeLevel((CHOOSE ch \in ChunksAt(blob_last.net, blob_last.target[1]) : TRUE).value).data_map

\* The addresses of the leaf chunks the data map references, as delete_blob
\* names them
LeafAddresses(data_map) ==
    {LeafAddress(data_map, FALSE, i) : i \in 1 .. NumChunks(Size(data_map.content))}

\* C22: during delete_blob the deletion of the chunks a level's data map
\* references is requested before the deletion of the map-chunk of that
\* level: the delete of the head chunk is not sent before the delete of a
\* chunk its map references.
C22_LeavesBeforeHead ==
    Returned_Ok("delete") =>
        \A k, j \in 1 .. Len(blob_last.sent) :
            (/\ blob_last.sent[k].address = blob_last.target[1]
             /\ blob_last.sent[j].address \in LeafAddresses(DeletedHeadMap))
            => j < k

\* The chunk create_new_blob makes of the Root level before packing
RootChunk(public) ==
    LET content == SerializeLevel("Root", DataMapOf(payload, OwnerOf(public))) IN
    IF public THEN PublicChunk(content) ELSE PrivateChunk(content, OwnerOf(public))

\* C23: pack returns a chunk that validates its size, the Root chunk itself
\* when that validates and a Child level otherwise: a store never ends with
\* ExceededSize and every chunk it sends validates; and store_chunk_on_network
\* given an oversized chunk returns ExceededSize and sends no command.
C23_PackValidates ==
    /\ blob_last.op = "store" =>
          /\ blob_last.err # "ExceededSize"
          /\ \A k \in 1 .. Len(blob_last.sent) :
                blob_last.sent[k].op = "New" /\ validate_size(blob_last.sent[k].chunk[1])
    /\ Returned_Ok("store") =>
          /\ ChunkAddress(blob_last.sent[Len(blob_last.sent)].chunk[1]) = blob_last.address[1]
          /\ (HeadLevel.tag = "Root") = validate_size(RootChunk(blob_last.public))
          /\ HeadLevel.tag \in {"Root", "Child"}
    /\ (blob_last.op = "store_chunk" /\ ~validate_size(PayloadChunk(blob_last.public)))
       => /\ blob_last.err = "ExceededSize"
          /\ blob_last.sent = <<>>

\* A public store has returned whose Root chunk was oversized and was packed
\* into a Child level
C23_Witness ==
    /\ Returned_Ok("store")
    /\ blob_last.public
    /\ ~validate_size(RootChunk(TRUE))
    /\ HeadLevel.tag = "Child"
    /\ validate_size(blob_last.sent[Len(blob_last.sent)].chunk[1])

\* C24: a read at the name of a stored blob with the other kind of address
\* returns an error, DataNotFound; and stores of the same bytes as public and
\* as private both return Ok, at different addresses, and both blobs are read
\* whole once the network has applied the commands.
C24_NamespacesDisjoint ==
    /\ (/\ blob_last.op = "read"
        /\ \E a \in HeadAddresses : Held(<<a>>) /\ blob_last.target = <<OtherKind(a)>>)
       => blob_last.err = "DataNotFound"
    /\ (blob_last.op = "store" /\ StoresOk(~blob_last.public) # {})
       => /\ blob_last.err = NoErr
          /\ \A i \in StoresOk(~blob_last.public) : calls[i].address # blob_last.address
    /\ (/\ blob_last.op = "read"
        /\ blob_last.target \in {<<PublicHead>>, <<PrivateHead>>}
        /\ Held(<<PublicHead>>) /\ Held(<<PrivateHead>>))
       => /\ blob_last.err = NoErr
          /\ blob_last.bytes = <<payload>>

\* With the public blob stored and read, the read at the private address of
\* the same name has returned
C24_Witness ==
    /\ blob_last.op = "read"
    /\ Held(<<PublicHead>>)
    /\ blob_last.target = <<OtherKind(PublicHead)>>
    /\ blob_last.err = "DataNotFound"
    /\ ChunksAt(net_chunks, PublicHead) # {}

\* The addresses of the chunks store_private_blob writes for the payload: the
\* leaf chunks of the root data map and of every Child level, and the head
PrivateBlobAddresses ==
    LET sent_ == store_private_blob(Client({}, 0), payload).c.sent IN
    {sent_[k].address : k \in 1 .. Len(sent_)}

\* C25: a delete_blob of a private blob that returns Ok has requested the
\* deletion of every leaf chunk the root data map and the data map of every
\* Child level reference, and once the network has applied the commands none
\* of the chunks of the blob can be fetched.
C25_DeleteComplete ==
    /\ DeletedPrivate =>
          \A a \in PrivateBlobAddresses :
             \E k \in 1 .. Len(blob_last.sent) :
                blob_last.sent[k] = ChunkWriteDeletePrivate(a)
    /\ (Len(calls) \in DeletesOk /\ in_flight = <<>>) =>
          \A a \in PrivateBlobAddresses :
             fetch_blob_from_network(Client(net_chunks, 0), a).c.err = "DataNotFound"

\* The delete of a private blob of two Child levels has returned and its
\* commands are applied
C25_Witness ==
    /\ Len(calls) \in DeletesOk
    /\ in_flight = <<>>
    /\ blob_data_map(payload, OwnerOf(FALSE)).data_map.content.form = "chunk"
    /\ Cardinality(PrivateBlobAddresses) > 9
    /\ \A ch \in net_chunks : ch.public

----------------------------------------------------------------------------
(* Properties of the bounce protocol *)

\* The observed input is a Bounce of a node peer that handle_bounce got while
\* the node was in the stage tag
BounceHandled(tag) == Dispatched(tag, {"Bounce"}) /\ last.o # "ok_err"

\* The version the observed Bounce reports, NoVersion when it reports none
SenderVersion == last.msg.arg

\* The version the node knows for the section of the bouncing peer, NoVersion
\* when the peer is a member of no section the node knows
KnownVersion == find_section_by_member(last.peer)

\* The resends the step put on a timer
Resends == {i \in DOMAIN sent : sent[i].op = "later"}

\* The bounced bytes of the observed Bounce were put on a timer of
\* BOUNCE_RESEND_DELAY for the bouncing peer, as they came
ResendScheduled ==
    \E i \in Resends :
        /\ sent[i].to = last.peer
        /\ sent[i].msg = last.msg.message[1]
        /\ sent[i].delay = BOUNCE_RESEND_DELAY

\* The bouncing peer is behind: it reports a version below the known one
PeerBehind ==
    /\ KnownVersion # NoVersion
    /\ SenderVersion # NoVersion
    /\ SenderVersion < KnownVersion

\* C26: an Approved node that gets a Bounce from a peer whose reported version
\* is behind the version the node knows for the peer's section resends the
\* original bytes to that peer after BOUNCE_RESEND_DELAY, together with a chain
\* extension that covers the gap up to the known version.
C26_ResendWithChainExtension ==
    (BounceHandled("Approved") /\ PeerBehind) =>
        \E i \in Resends :
            /\ sent[i].to = last.peer
            /\ sent[i].msg = last.msg.message[1]
            /\ sent[i].delay = BOUNCE_RESEND_DELAY
            /\ sent[i].version = KnownVersion

\* C27, as stated: an Approved node does not resend when the version of the
\* bouncing peer is ahead of or equal to the known one, or is unknown: the
\* Bounce carries no version, or the peer is a member of no known section.
C27_NoResendUnlessBehind ==
    (BounceHandled("Approved") /\ ~PeerBehind) => sent = <<>>

\* C27, amended: an Approved node does not resend, and sends nothing at all,
\* when the bouncing peer is a member of no section the node knows, or reports
\* a version that is the known one or ahead of it; a Bounce that carries no
\* version and comes from a member of a known section is resent after the
\* delay, as one from a peer that is behind is.
C27_NoResendWhenMovedOnOrNotKnown ==
    BounceHandled("Approved") =>
        /\ (KnownVersion = NoVersion \/ (SenderVersion # NoVersion /\ ~PeerBehind))
              => sent = <<>>
        /\ (KnownVersion # NoVersion /\ SenderVersion = NoVersion)
              => (ResendScheduled /\ Cardinality(Resends) = 1)
        /\ stage = pre.stage

C27_Witness ==
    /\ BounceHandled("Approved")
    /\ KnownVersion # NoVersion
    /\ SenderVersion = KnownVersion
    /\ sent = <<>>

\* C28: a node in Bootstrapping or Joining that gets a Bounce puts the bounced
\* bytes, as they came, on a timer of BOUNCE_RESEND_DELAY for the bouncing
\* peer, whatever version the Bounce reports, and stays in its stage.
C28_AlwaysResendsBeforeApproval ==
    \A tag \in {"Bootstrapping", "Joining"} :
        BounceHandled(tag) =>
            /\ ResendScheduled
            /\ Cardinality(Resends) = 1
            /\ stage = pre.stage

C28_Witness ==
    /\ BounceHandled("Joining")
    /\ SenderVersion = 3
    /\ KnownVersion = NoVersion
    /\ ResendScheduled
    /\ stage.tag = "Joining"

\* BOUNCE_RESEND_DELAY in ticks
DelayTicks == BOUNCE_RESEND_DELAY * TicksPerSecond

\* Every bounced message that went out since the last tick went out the delay
\* after the Bounce that caused it, or later
SentAfterDelay == \A e \in resent : e.at >= e.since + DelayTicks

\* Every pending resend is due the delay after the Bounce that caused it
DueAfterDelay == \A t \in timer : t.due = t.since + DelayTicks

\* A pending resend stays as it is until the timer emits it, due
KeptUntilDue ==
    \A t \in timer :
        \/ t \in timer'
        \/ /\ t.due <= now
           /\ [to |-> t.to, msg |-> t.msg, since |-> t.since, at |-> now] \in resent'

\* C29: a bounce resend is never emitted before BOUNCE_RESEND_DELAY has passed
\* since the Bounce that caused it: handling a Bounce sends none of the bounced
\* bytes at once, it only schedules them, and a further Bounce that arrives
\* before the delay is over leaves every pending resend due when it was.
C29_NoResendBeforeDelay ==
    /\ [](SentAfterDelay /\ DueAfterDelay)
    /\ [][KeptUntilDue]_vars

\* A resend went out when it was due, and a further Bounce had arrived in
\* between and is still pending
C29_Witness ==
    \E e \in resent, t \in timer :
        /\ e.at = e.since + DelayTicks
        /\ e.since < t.since
        /\ t.since < e.at
        /\ t.due > now

----------------------------------------------------------------------------
(* Properties of the relay step *)

\* The observed input is a message of a node peer that decoded
Inbound ==
    /\ last.kind = "NewMessage"
    /\ last.peer_kind = "Node"
    /\ last.o # "bad_bytes"

\* What relay_message asks of the transport for the observed message: an
\* Approved node sends it on, a node that has no section yet bounces it
RelayOf ==
    IF pre.stage.tag = "Approved"
    THEN [op |-> "relay", to |-> "closer", msg |-> last.msg, version |-> NoVersion,
          delay |-> 0]
    ELSE [op |-> "bounce", to |-> last.peer, msg |-> last.msg, version |-> NoVersion,
          delay |-> 0]

\* The relay step came first, and what followed is how it ended: sent on or
\* bounced, failed with an error that ends the handling, or, in a node that is
\* Terminated, at the unreachable arm of relay_message
RelayedFirst ==
    CASE pre.stage.tag = "Terminated" ->
            sent = <<>> /\ panic = "unreachable: relay_message"
      [] pre.stage.tag = "Approved" /\ last.o = "relay_err" ->
            sent = <<>> /\ ~last.queued /\ msg_filter = pre.msg_filter
      [] OTHER -> sent # <<>> /\ sent[1] = RelayOf

\* The message was not handled here: not queued, not recorded, not answered
NotHandled ==
    /\ ~last.queued
    /\ msg_filter = pre.msg_filter
    /\ outbox = <<>>
    /\ stage = pre.stage
    /\ Len(sent) <= 1

\* C30: relay before handling. For every inbound message whose destination is
\* not in the location of the node, or is a multi-target location, the relay
\* step runs before any handling of the message; a message whose destination
\* is not in the location of the node is relayed and never queued for local
\* dispatch; a single-target message addressed to the node is not relayed.
C30_RelayBeforeHandling ==
    Inbound =>
        /\ (~in_dst_location(PreNode, last.msg.dst) \/ is_multiple(last.msg.dst))
              => RelayedFirst
        /\ ~in_dst_location(PreNode, last.msg.dst) => NotHandled
        /\ (in_dst_location(PreNode, last.msg.dst) /\ ~is_multiple(last.msg.dst)) =>
              /\ SentOps({"relay"}) = {}
              /\ \A i \in SentOps({"bounce"}) :
                    /\ ~last.queued
                    /\ Len(sent) = 1
                    /\ sent[i] = unhandled_message(PreNode, last.peer, last.msg).sent[1]

\* An Approved node got a message for its own section that it does not
\* handle: it sent the message on first and bounced it afterwards
C30_Witness ==
    /\ Inbound
    /\ pre.stage.tag = "Approved"
    /\ is_multiple(last.msg.dst)
    /\ in_dst_location(PreNode, last.msg.dst)
    /\ Len(sent) = 2
    /\ sent[1] = RelayOf
    /\ sent[2].op = "bounce"

----------------------------------------------------------------------------
(* Properties of the message queue *)

\* The messages accepted and not yet dispatched once the observed message was
\* taken in, oldest first
Arrived ==
    pre.msg_queue \o
    (IF last.queued THEN <<[message |-> last.msg, sender |-> last.peer]>> ELSE <<>>)

\* TRUE when the elements of s are elements of t, in the order of t
RECURSIVE InOrderOf(_, _)
InOrderOf(s, t) ==
    \/ s = <<>>
    \/ /\ t # <<>>
       /\ IF Head(s) = Head(t) THEN InOrderOf(Tail(s), Tail(t)) ELSE InOrderOf(s, Tail(t))

\* C31: the messages accepted from a peer are dispatched in the order they
\* were received in: the queue is first in, first out. What dispatch_message
\* is called with is the accepted messages, oldest first; when all of them
\* are sent Direct none is skipped, and the queue is left empty unless a
\* dispatch aborted the process.
C31_DispatchInOrder ==
    (last.kind = "NewMessage" /\ last.peer_kind = "Node") =>
        /\ InOrderOf(last.dispatched, Arrived)
        /\ (\A i \in DOMAIN Arrived : Arrived[i].message.dst = "Direct") =>
              /\ Len(last.dispatched) <= Len(Arrived)
              /\ last.dispatched = SubSeq(Arrived, 1, Len(last.dispatched))
              /\ panic = "none" => last.dispatched = Arrived
        /\ panic = "none" => msg_queue = <<>>

\* A message was accepted behind another one of the same peer, and the two
\* were dispatched, the older one first
C31_Witness ==
    /\ last.kind = "NewMessage"
    /\ last.queued
    /\ Len(pre.msg_queue) = 1
    /\ pre.msg_queue[1].sender = last.peer
    /\ pre.msg_queue[1].message # last.msg
    /\ last.dispatched = <<pre.msg_queue[1], [message |-> last.msg, sender |-> last.peer]>>

----------------------------------------------------------------------------
(* Properties of the mapping of EldersChanged *)

\* C32: mapping an EldersChanged event ends within the budget of the sanity
\* counter: whatever self_status_change is and whatever our_public_key_set
\* answers, an error or a key set that is not the one of the new elders yet,
\* the loop has made no more polls than the budget allows (one more than
\* SanityLimit at most) when the Mapping is returned, and is never found
\* polling beyond the budget.
C32_PollingEnds == polls <= SanityLimit + 1

----------------------------------------------------------------------------
(* Properties of the levels of a packed blob *)

\* The head chunk the observed store sent
HeadChunk == blob_last.sent[Len(blob_last.sent)].chunk[1]

\* The levels from a chunk on: the level the chunk holds, then, under a Child,
\* the levels of the chunk its data map was made of
RECURSIVE LevelsFrom(_)
LevelsFrom(chunk) ==
    LET level == DeserializeLevel(chunk.value)
        below == DeserializeChunk(level.data_map.content)
    IN  IF ~level.ok THEN <<>>
        ELSE IF level.tag = "Child" /\ below.ok THEN <<level>> \o LevelsFrom(below.chunk)
        ELSE <<level>>

\* The network once it has applied what the observed store sent
NetStored == net_chunks \cup {in_flight[k].chunk[1] : k \in DOMAIN in_flight}

\* C33: the levels reachable from the head chunk of a stored blob hold one
\* Root, the last of them, with the data map of the user bytes; every level
\* before it is a Child that holds the data map of the serialised chunk of the
\* level below; unpack of the head chunk follows the Child levels and returns
\* the data map of the user bytes; and when the chunk of the Root level
\* validates its size the head chunk is that Root.
C33_LevelStructure ==
    Returned_Ok("store") =>
        LET levels == LevelsFrom(HeadChunk)
            root == DataMapOf(payload, OwnerOf(blob_last.public))
            u == unpack(Client(NetStored, 0), HeadChunk)
        IN  /\ levels # <<>>
            /\ \A i \in DOMAIN levels :
                  IF i = Len(levels)
                  THEN levels[i].tag = "Root" /\ levels[i].data_map = root
                  ELSE /\ levels[i].tag = "Child"
                       /\ levels[i].data_map.content.form = "chunk"
                       /\ levels[i].data_map.owner = OwnerOf(blob_last.public)
            /\ u.c.err = NoErr
            /\ u.data_map = root
            /\ validate_size(RootChunk(blob_last.public)) => Len(levels) = 1

\* A store has returned whose head chunk is a Child of a Child of the Root
C33_Witness ==
    /\ Returned_Ok("store")
    /\ Len(LevelsFrom(HeadChunk)) = 3
    /\ unpack(Client(NetStored, 0), HeadChunk).data_map.content = payload

(* Properties of the order of the commands of a store *)

\* The address of the head chunk of the payload, made offline
ExpectedHead == blob_data_map(payload, OwnerOf(blob_last.public)).address

\* The places in the commands of the observed store of the chunk at address
SentAt(address) ==
    {k \in DOMAIN blob_last.sent :
        blob_last.sent[k].op = "New" /\ blob_last.sent[k].address = address}

\* C34: create_new_blob sends the head chunk last, after every leaf chunk of
\* the user data and of every level below the head; and a store that returns
\* an error has not sent the head chunk and returns no address.
C34_HeadStoredLast ==
    blob_last.op = "store" =>
        IF blob_last.err = NoErr
        THEN /\ blob_last.address = <<ExpectedHead>>
             /\ SentAt(ExpectedHead) = {Len(blob_last.sent)}
             /\ \A i \in DOMAIN LevelsFrom(HeadChunk) :
                   LET data_map == LevelsFrom(HeadChunk)[i].data_map IN
                   \A l \in 1 .. NumChunks(Size(data_map.content)) :
                       \E k \in SentAt(LeafAddress(data_map, blob_last.public, l)) :
                           k < Len(blob_last.sent)
        ELSE /\ SentAt(ExpectedHead) = {}
             /\ blob_last.address = <<>>

\* A store has failed at the head chunk after it wrote the chunks of two
\* levels, and a store of the same kind has sent all of them
C34_Witness ==
    /\ blob_last.op = "store"
    /\ blob_last.err = "Payment"
    /\ blob_last.fails_at = Len(blob_last.sent) + 1
    /\ Len(blob_last.sent) >= 2
    /\ Len(LevelsFrom(pack(Client({}, 0), RootChunk(blob_last.public).value,
                            blob_last.public).chunk)) >= 2

(* Properties of a delete whose head chunk is not held *)

\* The observed call is a delete at an address where the network held no chunk
DeleteOfMissingHead ==
    /\ blob_last.op = "delete"
    /\ ChunksAt(blob_last.net, blob_last.target[1]) = {}

\* C40: delete_blob fetches the head chunk before it requests any deletion:
\* when the head chunk is not fetched the call returns the error of the fetch,
\* has sent and paid for no command, and the network holds what it held.
C40_NoDeleteWithoutHead ==
    DeleteOfMissingHead =>
        /\ blob_last.err = "DataNotFound"
        /\ blob_last.sent = <<>>
        /\ in_flight = blob_last.in_flight
        /\ net_chunks = blob_last.net

\* A delete of the private head was called while the network held the leaves
\* and the head of the public blob only
C40_Witness ==
    /\ DeleteOfMissingHead
    /\ blob_last.target[1].kind = "Private"
    /\ blob_last.err = "DataNotFound"
    /\ Cardinality(net_chunks) >= 2

(* Properties of the envelopes addressed elsewhere *)

\* C39: an envelope whose destination this node does not handle (a Client or
\* Section address outside our prefix, a Node address that is not our own
\* name) is classified ForwardToNetwork, whatever the role of the node and the
\* sender of the envelope.
C39_ElsewhereForwarded ==
    (Evaluated /\ ~AddressedToUs(env)) => action = "ForwardToNetwork"

(* Properties of the changes of stage *)

\* The step dispatched a message of the variant; a step that is not observed
\* tells nothing of its input
DispatchedVariant(variant) ==
    \/ last'.kind = "none"
    \/ /\ last'.kind = "NewMessage"
       /\ \E i \in DOMAIN last'.dispatched : last'.dispatched[i].message.variant = variant

\* The step handled an input of the kind
InputOfKind(kind) == last'.kind \in {"none", kind}

\* The stage changes along an edge of the state machine, on the input of
\* that edge
StageEdge ==
    LET from == stage.tag
        to == stage'.tag
    IN  from # to =>
            \/ from = "Bootstrapping" /\ to = "Joining"
                  /\ DispatchedVariant("BootstrapResponseJoin")
            \/ from = "Joining" /\ to = "Approved" /\ DispatchedVariant("NodeApproval")
            \/ from = "Joining" /\ to = "Bootstrapping" /\ InputOfKind("HandleTimeout")
            \/ from = "Approved" /\ to = "Bootstrapping" /\ DispatchedVariant("Relocate")
            \/ from = "Bootstrapping" /\ to = "Terminated" /\ InputOfKind("BootstrapFailure")
            \/ to = "Terminated" /\ InputOfKind("Finish")

\* C35: the stage changes only from Bootstrapping to Joining (a bootstrap
\* response Join), from Joining to Approved (the approval), from Joining to
\* Bootstrapping (the join timer), from Approved to Bootstrapping (a relocate
\* that is accepted), from Bootstrapping to Terminated (a bootstrap failure)
\* and from any stage to Terminated (Finish); Approved is never reached from
\* Bootstrapping in one step.
C35_StageEdges == [][StageEdge]_vars

\* A node that went from Bootstrapping through Joining and Approved has been
\* relocated back to Bootstrapping
C35_Witness ==
    /\ last.kind = "NewMessage"
    /\ last.msg.variant = "Relocate"
    /\ pre.stage.tag = "Approved"
    /\ stage.tag = "Bootstrapping"
    /\ stage.relocate # None

(* Properties of the assertions and the unreachable arms *)

\* The step, taken by a node that is running, ends in no assertion failure
\* and in no unreachable!() arm
NoPanicWhileRunning == stage.tag # "Terminated" => panic' = "none"

\* C36: no network event and no action handled by a node in Bootstrapping,
\* Joining or Approved reaches an assertion failure or an unreachable!() arm.
C36_NoPanicWhileRunning == [][NoPanicWhileRunning]_vars

(* Properties of the SendMessage action *)

\* The last input was Action::SendMessage
SendMessageHandled == last.kind = "SendMessage"

\* The node sent a user message while it handled the last input
UserMessageSent == \E i \in DOMAIN sent : sent[i].op = "user_message"

\* C37: handle_send_message sends a user message only when the stage is
\* Approved and the destination is not Direct; with the destination Direct it
\* returns BadLocation in every stage and sends nothing; in Bootstrapping,
\* Joining and Terminated with any other destination it returns Ok and sends
\* nothing; in these cases the stage and the message queue are as before.
C37_SendOnlyWhenApproved ==
    SendMessageHandled =>
        /\ UserMessageSent <=> (pre.stage.tag = "Approved" /\ last.dst # "Direct")
        /\ last.dst = "Direct" => (result = "BadLocation" /\ sent = <<>>)
        /\ (last.dst # "Direct" /\ pre.stage.tag # "Approved") =>
              (result = "Ok" /\ sent = <<>>)
        /\ (last.dst = "Direct" \/ pre.stage.tag # "Approved") =>
              /\ stage = pre.stage
              /\ msg_queue = pre.msg_queue
              /\ outbox = <<>>
              /\ panic = "none"

\* A Joining node was asked to send to a section and answered Ok
C37_Witness ==
    /\ SendMessageHandled
    /\ pre.stage.tag = "Joining"
    /\ last.dst = "SectionOut"
    /\ result = "Ok"
    /\ sent = <<>>

(* Properties of the incoming message filter *)

\* The observed input is a message of a node peer
MessageArrived == last.kind = "NewMessage" /\ last.peer_kind = "Node"

\* The message would be accepted by a node that had not seen it
WouldBeAccepted ==
    /\ InLocation
    /\ should_handle_message(PreNode, last.msg)
    /\ verify_message(PreNode, last.msg, last.o) = "true"

\* What the filter tells of the observed message
HandledAtMostOnce ==
    MessageArrived =>
        /\ last.msg \in pre.msg_filter =>
              /\ ~last.queued
              /\ last.dispatched = <<>>
              /\ msg_filter = pre.msg_filter
        /\ last.queued => last.msg \in msg_filter
        /\ ~last.queued => msg_filter = pre.msg_filter
        /\ (WouldBeAccepted /\ last.msg \notin pre.msg_filter) =>
              /\ last.queued
              /\ \E i \in DOMAIN last.dispatched : last.dispatched[i].message = last.msg

\* The filter forgets nothing
FilterKept == msg_filter \subseteq msg_filter'

\* C38: a message that is accepted is recorded in the incoming filter, and a
\* later arrival of a recorded message, from any peer and after any other
\* inputs, is neither queued nor dispatched; a message that is not accepted is
\* not recorded, and a copy of it that is acceptable is queued and dispatched.
C38_AtMostOnce == []HandledAtMostOnce /\ [][FilterKept]_vars

\* A message that was accepted before arrives again, from p2, and would be
\* accepted but for the filter
C38_Witness ==
    /\ WouldBeAccepted
    /\ last.peer = "p2"
    /\ last.msg \in pre.msg_filter
    /\ ~last.queued
    /\ last.dispatched = <<>>

====
